---- MODULE Spec2Model ----
(***************************************************************************)
(* FluxRules: the condition evaluator, the RETE network and its engine,    *)
(* the linear evaluator, the two-tier rule cache, the conflict detector    *)
(* and the rule lifecycle (create / update / delete with versions).        *)
(*                                                                         *)
(* JSON values are records [t, v]: t is the Python type of the value and v *)
(* a sequence of naturals (the number of an int, the character codes of a  *)
(* str, the elements of a list of ints).  Character codes: the digits 0-9  *)
(* are 0..9, the other characters are listed in Ch.                        *)
(***************************************************************************)
EXTENDS Integers, Sequences, FiniteSets, TLC

VARIABLES
    \* ---- inputs of the engine run (drawn in Init, never changed) ----
    rules_in,            \* the rule list handed to the engine
    event_in,            \* the event
    \* ---- app.engine.rete_network ----
    network,             \* ReteEngine.network : ReteNetwork
    rules_cache,         \* ReteEngine._rules_cache
    ret,                 \* what the last call returned (or that it raised)
    \* ---- rule store (tables rules, rule_versions, audit_logs) ----
    store,               \* rules: id -> row, committed state
    versions,            \* rule_versions rows, committed state
    audit,               \* audit_logs rows, committed state
    next_id,             \* next primary key of table rules
    upd,                 \* RuleService.update_rule in flight (between commits)
    now,                 \* the clock: commits to table rules so far
    \* ---- caches of the process ----
    svc_cache,           \* rule_service._rule_cache : its local tier
    eng_cache,           \* OptimizedReteEngine.cache per engine: its local tier
    redis,               \* remote tier: key -> serialized rule list
    redis_available,     \* RuleCache._redis_available
    conflict_cache,      \* optimized_conflict_detector._conflict_cache
    resp,                \* what the last lifecycle / API call returned
    \* ---- calls that run concurrently ----
    threads,             \* per thread: where its call stands, its locals
    heap,                \* the list objects and who refers to them
    \* ---- time ----
    clock                \* time.time(), the stamps and expiries taken from it

engineVars == <<rules_in, event_in, network, rules_cache, ret>>
storeVars  == <<store, versions, audit, next_id, upd, now>>
cacheVars  == <<svc_cache, eng_cache, redis, redis_available, conflict_cache>>
concVars   == <<threads, heap, clock>>
vars == <<rules_in, event_in, network, rules_cache, ret,
          store, versions, audit, next_id, upd, now,
          svc_cache, eng_cache, redis, redis_available, conflict_cache, resp,
          threads, heap, clock>>

-----------------------------------------------------------------------------
(* JSON values                                                             *)

Ch == [a |-> 10, b |-> 11, N |-> 12, o |-> 13, n |-> 14, e |-> 15,
       lbracket |-> 20, rbracket |-> 21, comma |-> 22, space |-> 23,
       lbrace |-> 24, rbrace |-> 25, lparen |-> 26, quote |-> 27,
       colon |-> 28]

JInt(n)   == [t |-> "int",  v |-> <<n>>]
JStr(s)   == [t |-> "str",  v |-> s]
JList(xs) == [t |-> "list", v |-> xs]       \* a list of ints
JDict     == [t |-> "dict", v |-> <<>>]     \* the object {}
JObj(ks)  == [t |-> "dict", v |-> ks]       \* the object {k: 1 for k in ks},
                                            \* its keys in insertion order
None      == [t |-> "null", v |-> <<>>]     \* JSON null, Python None

RECURSIVE Digits(_)
Digits(n) == IF n < 10 THEN <<n>> ELSE Digits(n \div 10) \o <<n % 10>>

RECURSIVE JoinInts(_)
JoinInts(xs) ==
    IF xs = <<>> THEN <<>>
    ELSE IF Len(xs) = 1 THEN Digits(xs[1])
    ELSE Digits(xs[1]) \o <<Ch.comma, Ch.space>> \o JoinInts(Tail(xs))

\* the items of str(dict): 'k': 1, in insertion order
RECURSIVE JoinItems(_)
JoinItems(ks) ==
    IF ks = <<>> THEN <<>>
    ELSE <<Ch.quote, Head(ks), Ch.quote, Ch.colon, Ch.space, 1>>
         \o (IF Len(ks) = 1 THEN <<>> ELSE <<Ch.comma, Ch.space>>)
         \o JoinItems(Tail(ks))

\* str(x), as used by starts_with, ends_with and regex
PyStr(x) ==
    CASE x.t = "int"  -> Digits(x.v[1])
      [] x.t = "str"  -> x.v
      [] x.t = "list" -> <<Ch.lbracket>> \o JoinInts(x.v) \o <<Ch.rbracket>>
      [] x.t = "dict" -> <<Ch.lbrace>> \o JoinItems(x.v) \o <<Ch.rbrace>>
      [] OTHER        -> <<Ch.N, Ch.o, Ch.n, Ch.e>>

\* hash(x) raises TypeError for lists and dicts
Unhashable(x) == x.t \in {"list", "dict"}

StartsWith(s, p) == Len(p) <= Len(s) /\ SubSeq(s, 1, Len(p)) = p
EndsWith(s, p) == Len(p) <= Len(s) /\ SubSeq(s, Len(s) - Len(p) + 1, Len(s)) = p
Substring(p, s) == \E i \in 1..(Len(s) + 1) :
                      i + Len(p) - 1 <= Len(s) /\ SubSeq(s, i, i + Len(p) - 1) = p

\* lexicographic order of two sequences of naturals (str < str, list < list)
RECURSIVE SeqLess(_, _)
SeqLess(s, u) ==
    IF u = <<>> THEN FALSE
    ELSE IF s = <<>> THEN TRUE
    ELSE IF s[1] # u[1] THEN s[1] < u[1]
    ELSE SeqLess(Tail(s), Tail(u))

\* the keys of a dict
Keys(x) == {x.v[i] : i \in 1..Len(x.v)}

\* x == y in Python: values of different JSON types are never equal; two
\* dicts are equal when they have the same items, in whatever order
PyEq(x, y) ==
    /\ x.t = y.t
    /\ IF x.t = "dict" THEN Keys(x) = Keys(y) ELSE x.v = y.v

\* x < y: "T", "F", or "X" when Python raises TypeError
PyLess(x, y) ==
    IF x.t = "int" /\ y.t = "int" THEN (IF x.v[1] < y.v[1] THEN "T" ELSE "F")
    ELSE IF x.t = y.t /\ x.t \in {"str", "list"}
         THEN (IF SeqLess(x.v, y.v) THEN "T" ELSE "F")
    ELSE "X"

Neg3(r) == IF r = "X" THEN "X" ELSE IF r = "T" THEN "F" ELSE "T"
OfBool(b) == IF b THEN "T" ELSE "F"

\* x in c: list membership, substring, key of {}; "X" when Python raises
PyIn(x, c) ==
    CASE c.t = "list" -> OfBool(x.t = "int" /\ \E i \in 1..Len(c.v) : c.v[i] = x.v[1])
      [] c.t = "str"  -> IF x.t = "str" THEN OfBool(Substring(x.v, c.v)) ELSE "X"
      [] c.t = "dict" -> IF Unhashable(x) THEN "X"
                         ELSE OfBool(x.t = "str" /\ Len(x.v) = 1
                                     /\ x.v[1] \in Keys(c))
      [] OTHER        -> "X"

\* re.match(pattern, s): patterns are literal text, or hold an unbalanced
\* parenthesis or bracket and fail to compile; a pattern that is no str raises
PyReMatch(p, s) ==
    IF p.t # "str" THEN "X"
    ELSE IF \E i \in 1..Len(p.v) : p.v[i] \in {Ch.lparen, Ch.lbracket} THEN "X"
    ELSE OfBool(StartsWith(s, p.v))

\* the comparison chain shared by AlphaCondition.evaluate and
\* OptimizedReteEngine._evaluate_simple_condition; ev is the event's value
Compare(op, ev, value) ==
    CASE op = "=="          -> OfBool(PyEq(ev, value))
      [] op = "!="          -> OfBool(~PyEq(ev, value))
      [] op = ">"           -> PyLess(value, ev)
      [] op = ">="          -> Neg3(PyLess(ev, value))
      [] op = "<"           -> PyLess(ev, value)
      [] op = "<="          -> Neg3(PyLess(value, ev))
      [] op = "in"          -> PyIn(ev, value)
      [] op = "not_in"      -> Neg3(PyIn(ev, value))
      [] op = "contains"    -> PyIn(value, ev)
      [] op = "starts_with" -> OfBool(StartsWith(PyStr(ev), PyStr(value)))
      [] op = "ends_with"   -> OfBool(EndsWith(PyStr(ev), PyStr(value)))
      [] op = "regex"       -> PyReMatch(value, PyStr(ev))
      [] OTHER              -> "F"

\* try: ... except Exception: return False
TryBool(r) == r = "T"

\* event.get(field)
EventGet(event, field) == IF field \in DOMAIN event THEN event[field] ELSE None

Operator == {"==", "!=", ">", ">=", "<", "<=", "in", "not_in", "contains",
             "starts_with", "ends_with", "regex", "exists", "not_exists"}

\* AlphaCondition.evaluate
AlphaCondition_evaluate(cond, event) ==
    IF cond.op = "exists" THEN cond.field \in DOMAIN event
    ELSE IF cond.op = "not_exists" THEN cond.field \notin DOMAIN event
    ELSE IF EventGet(event, cond.field) = None THEN FALSE
    ELSE TryBool(Compare(cond.op, EventGet(event, cond.field), cond.value))

-----------------------------------------------------------------------------
(* Condition DSL.  Every node has the five keys of schemas.ConditionNode;  *)
(* an absent key is "" (field, op, type) or <<>> (children).  The op       *)
(* "null" is a key that is present with value null; the type "str" is a    *)
(* JSON string standing where an object is expected.                       *)

Cond(f, o, val) == [type |-> "condition", op |-> o, field |-> f, value |-> val,
                    children |-> <<>>]
Group(o, ch)    == [type |-> "group", op |-> o, field |-> "", value |-> None,
                    children |-> ch]
EmptyDsl        == [type |-> "", op |-> "", field |-> "", value |-> None,
                    children |-> <<>>]                      \* {}
Malformed       == [type |-> "str", op |-> "", field |-> "", value |-> None,
                    children |-> <<>>]                      \* "oops"

IsEmptyDict(c) == c = EmptyDsl      \* `not condition`
IsDict(c) == c.type # "str"

\* str.upper() on the group connectives
Upper(op) == CASE op = "and" -> "AND" [] op = "or" -> "OR" [] op = "not" -> "NOT"
               [] OTHER -> op

\* dict[k] = x
DictSet(d, k, x) == [y \in (DOMAIN d) \cup {k} |-> IF y = k THEN x ELSE d[y]]

-----------------------------------------------------------------------------
(* app.engine.rete_network: ReteNetwork.  A node is known by its index in  *)
(* the list that holds it (alpha_nodes keeps the dict's insertion order);  *)
(* a beta's terminal is the index of a TerminalNode, 0 for None.           *)

NoHash == <<>>                      \* _rules_hash = ""

\* the elements of a set of naturals in ascending order
RECURSIVE SortedSeq(_)
SortedSeq(S) ==
    IF S = {} THEN <<>>
    ELSE LET least(m) == <<m>> \o SortedSeq(S \ {m})
         IN least(CHOOSE x \in S : \A y \in S : x <= y)

\* json.dumps(..., sort_keys=True) on a condition tree: the keys of every
\* object in sorted order (the keys of the tree's own objects are record
\* fields, which have no order)
RECURSIVE sort_keys(_)
sort_keys(c) ==
    [c EXCEPT !.value = IF @.t = "dict"
                        THEN [@ EXCEPT !.v = SortedSeq(Keys(c.value))]
                        ELSE @,
              !.children = [i \in DOMAIN @ |-> sort_keys(@[i])]]

\* ReteNetwork._calculate_hash: md5 of json.dumps(rules, sort_keys=True);
\* two rule lists have the same digest iff they have the same text
calculate_hash(rules) ==
    <<[i \in DOMAIN rules |->
         [rules[i] EXCEPT !.condition_dsl = sort_keys(@)]]>>

NewStats == [alpha_nodes |-> 0, beta_nodes |-> 0, terminal_nodes |-> 0,
             shared_conditions |-> 0]

\* ReteNetwork.__init__
EmptyNetwork ==
    [alpha_nodes |-> <<>>, beta_nodes |-> <<>>, terminals |-> <<>>,
     terminal_nodes |-> <<>>, field_to_alphas |-> <<>>,
     stats |-> NewStats, rules_hash |-> NoHash]

AlphaNode(cond) == [condition |-> cond, successors |-> <<>>, alpha_memory |-> {}]

BetaNode(jt, pa, pb) ==
    [join_type |-> jt, parent_alphas |-> pa, parent_betas |-> pb,
     children |-> <<>>, terminal |-> 0, is_negated |-> FALSE,
     beta_memory |-> FALSE]

TerminalNode(rule) ==
    [rule_id |-> rule.id, rule_priority |-> rule.priority, is_activated |-> FALSE]

\* ReteNetwork._clear_network (the statistics are not reset)
clear_network(net) ==
    [net EXCEPT !.alpha_nodes = <<>>, !.beta_nodes = <<>>, !.terminals = <<>>,
                !.terminal_nodes = <<>>, !.field_to_alphas = <<>>,
                !.rules_hash = NoHash]

\* the key of the alpha table
AlphaCondition(c) == [field |-> c.field, op |-> c.op, value |-> c.value]

\* AlphaCondition.__hash__: the hash of (field, operator, str(value)), with
\* the md5 of str(value) for a list or a dict; md5 is taken as injective
AlphaCondition_hash(ac) ==
    <<ac.field, ac.op,
      [md5 |-> Unhashable(ac.value), text |-> PyStr(ac.value)]>>

\* AlphaCondition.__eq__
AlphaCondition_eq(ac, other) ==
    ac.field = other.field /\ ac.op = other.op /\ PyEq(ac.value, other.value)

\* `alpha_condition in self._alpha_nodes`: the dict finds a key that has
\* the same hash and is equal
SameKey(ac, other) ==
    AlphaCondition_hash(ac) = AlphaCondition_hash(other)
    /\ AlphaCondition_eq(ac, other)

\* self._alpha_nodes[alpha_condition]: the node's index, 0 when absent
AlphaIndex(net, ac) ==
    IF \E i \in 1..Len(net.alpha_nodes) :
          SameKey(net.alpha_nodes[i].condition, ac)
    THEN CHOOSE i \in 1..Len(net.alpha_nodes) :
            SameKey(net.alpha_nodes[i].condition, ac)
    ELSE 0

\* a build step returns the network, the beta it built (0 for None) and
\* whether it raised
Built(net, beta) == [net |-> net, beta |-> beta, raised |-> FALSE]
Raised(net)      == [net |-> net, beta |-> 0, raised |-> TRUE]

\* ReteNetwork._build_alpha_condition
build_alpha_condition(net, c) ==
    IF c.field = "" \/ c.op \in {"", "null"} THEN Built(net, 0)
    ELSE IF c.op \notin Operator THEN Built(net, 0)
    ELSE
      LET \* the beta node b that holds the result of the alpha node a
          link(net1, a, b) ==
              Built([net1 EXCEPT
                       !.beta_nodes = Append(@, BetaNode("AND", <<a>>, <<>>)),
                       !.alpha_nodes[a].successors = Append(@, b)], b)
          \* reuse the alpha node found, or create one
          share(ac, found, a, b) ==
              IF found # 0
              THEN link([net EXCEPT !.stats.shared_conditions = @ + 1],
                        found, b)
              ELSE link([net EXCEPT
                           !.alpha_nodes = Append(@, AlphaNode(ac)),
                           !.field_to_alphas =
                               DictSet(@, c.field,
                                       IF c.field \in DOMAIN @
                                       THEN Append(@[c.field], a) ELSE <<a>>)],
                        a, b)
      IN share(AlphaCondition(c), AlphaIndex(net, AlphaCondition(c)),
               Len(net.alpha_nodes) + 1, Len(net.beta_nodes) + 1)

RECURSIVE build_condition_network(_, _)
RECURSIVE build_children(_, _, _)

\* the loop of _build_group_condition over the children: the betas that
\* were built, None results skipped
build_children(net, children, child_betas) ==
    IF children = <<>>
    THEN [net |-> net, betas |-> child_betas, raised |-> FALSE]
    ELSE LET next(r) ==
                 IF r.raised
                 THEN [net |-> r.net, betas |-> child_betas, raised |-> TRUE]
                 ELSE build_children(r.net, Tail(children),
                                     IF r.beta # 0
                                     THEN Append(child_betas, r.beta)
                                     ELSE child_betas)
         IN next(build_condition_network(net, Head(children)))

\* `for child_beta in child_betas: child_beta.children.append(beta_node)`
LinkChildren(betas, child_betas, b) ==
    [i \in 1..Len(betas) |->
        LET append(k) == IF k = 0 THEN betas[i]
                         ELSE [betas[i] EXCEPT
                                 !.children = @ \o [j \in 1..k |-> b]]
        IN append(Cardinality({j \in 1..Len(child_betas) :
                                  child_betas[j] = i}))]

\* ReteNetwork._build_group_condition
build_group_condition(net, c) ==
    IF c.op = "null" THEN Raised(net)       \* None.upper()
    ELSE IF c.children = <<>>
    THEN Built([net EXCEPT !.beta_nodes = Append(@, BetaNode("AND", <<>>, <<>>))],
               Len(net.beta_nodes) + 1)
    ELSE
      LET join(r, op) ==
              IF r.raised THEN Raised(r.net)
              ELSE IF r.betas = <<>> THEN Built(r.net, 0)
              ELSE IF op = "NOT"
              THEN Built([r.net EXCEPT
                            !.beta_nodes[r.betas[1]].is_negated = TRUE],
                         r.betas[1])
              ELSE Built([r.net EXCEPT
                            !.beta_nodes =
                                LinkChildren(Append(@, BetaNode(op, <<>>, r.betas)),
                                             r.betas, Len(@) + 1)],
                         Len(r.net.beta_nodes) + 1)
      IN join(build_children(net, c.children, <<>>),
              IF c.op = "" THEN "AND" ELSE Upper(c.op))

\* ReteNetwork._build_condition_network
build_condition_network(net, c) ==
    IF ~IsDict(c) THEN Raised(net)          \* str has no attribute get
    ELSE IF c.type = "condition" THEN build_alpha_condition(net, c)
    ELSE IF c.type = "group" THEN build_group_condition(net, c)
    ELSE Built(net, 0)

\* ReteNetwork._add_rule
add_rule(net, rule) ==
    LET \* beta.terminal = terminal
        attach(r, t) ==
            IF r.raised \/ r.beta = 0 THEN r
            ELSE Built([r.net EXCEPT !.beta_nodes[r.beta].terminal = t], r.beta)
        build(net1, t) ==
            IF IsEmptyDict(rule.condition_dsl) THEN Built(net1, 0)
            ELSE attach(build_condition_network(net1, rule.condition_dsl), t)
    IN build([net EXCEPT
                !.terminals = Append(@, TerminalNode(rule)),
                !.terminal_nodes = DictSet(@, rule.id, Len(net.terminals) + 1)],
             Len(net.terminals) + 1)

\* `for rule in rules: self._add_rule(rule)`
RECURSIVE add_rules(_, _)
add_rules(net, rules) ==
    IF rules = <<>> THEN Built(net, 0)
    ELSE LET next(r) == IF r.raised THEN r ELSE add_rules(r.net, Tail(rules))
         IN next(add_rule(net, Head(rules)))

\* ReteNetwork._update_stats
update_stats(net) ==
    [net EXCEPT !.stats.alpha_nodes = Len(net.alpha_nodes),
                !.stats.beta_nodes = Len(net.beta_nodes),
                !.stats.terminal_nodes = Cardinality(DOMAIN net.terminal_nodes)]

\* what a call returns: the object after the call, the value, and whether
\* an exception left the call
Return(net, value) == [net |-> net, value |-> value, raised |-> FALSE]

\* an except branch that returns False and leaves what was built
compile_failed_keeps_nodes(net) == Return(net, FALSE)

\* the except branch of ReteNetwork.compile
compile_failed(net) == Return(clear_network(net), FALSE)

\* a compile without the hash check: it rebuilds whatever was compiled
ReteNetwork_compile_rebuilds(net, rules) ==
    LET done(r) ==
            IF r.raised THEN compile_failed(r.net)
            ELSE Return(update_stats([r.net EXCEPT
                            !.rules_hash = calculate_hash(rules)]), TRUE)
    IN done(add_rules(clear_network(net), rules))

\* ReteNetwork.compile
ReteNetwork_compile(net, rules) ==
    IF calculate_hash(rules) = net.rules_hash THEN Return(net, TRUE)
    ELSE LET done(r) ==
                 IF r.raised THEN compile_failed(r.net)
                 ELSE Return(update_stats([r.net EXCEPT
                                 !.rules_hash = calculate_hash(rules)]), TRUE)
         IN done(add_rules(clear_network(net), rules))

\* ReteNetwork.is_compiled
is_compiled(net) == net.rules_hash # NoHash

-----------------------------------------------------------------------------
(* ReteNetwork.evaluate                                                    *)

\* an evaluation that starts on the memories the last one left
reset_memories_none(net) == net

\* ReteNetwork._reset_memories
reset_memories(net) ==
    [net EXCEPT
       !.alpha_nodes = [i \in 1..Len(@) |-> [@[i] EXCEPT !.alpha_memory = {}]],
       !.beta_nodes  = [i \in 1..Len(@) |-> [@[i] EXCEPT !.beta_memory = FALSE]],
       !.terminals   = [i \in 1..Len(@) |->
                          IF \E id \in DOMAIN net.terminal_nodes :
                                net.terminal_nodes[id] = i
                          THEN [@[i] EXCEPT !.is_activated = FALSE] ELSE @[i]]]

\* hash(frozenset(event.items())) raises TypeError on a list or dict value
EventHashRaises(event) == \E f \in DOMAIN event : Unhashable(event[f])

\* Phase 1, first loop: the alpha nodes the field index gives for the
\* fields of the event
IndexedAlphas(net, event) ==
    UNION {{net.field_to_alphas[f][k] : k \in 1..Len(net.field_to_alphas[f])} :
              f \in (DOMAIN event) \cap (DOMAIN net.field_to_alphas)}

\* Phase 1, second loop: the alpha nodes that have no result yet
RemainingAlphas(net, event) ==
    (1..Len(net.alpha_nodes)) \ IndexedAlphas(net, event)

\* alpha_results after both loops: AlphaNode.activate on every node reached
AlphaResults(net, event) ==
    [a \in IndexedAlphas(net, event) \cup RemainingAlphas(net, event) |->
        AlphaCondition_evaluate(net.alpha_nodes[a].condition, event)]

\* AlphaNode.activate's effect on the alpha memories
ActivateAlphas(net, event, alpha_results) ==
    [net EXCEPT !.alpha_nodes =
        [a \in 1..Len(@) |->
            IF a \in DOMAIN alpha_results /\ alpha_results[a]
            THEN [@[a] EXCEPT !.alpha_memory = @ \cup {event}]
            ELSE @[a]]]

\* BetaNode.evaluate: the result, from the alpha results and the parents'
\* beta memories
BetaNode_evaluate(beta, betas, alpha_results) ==
    LET negate(result) == IF beta.is_negated THEN ~result ELSE result
        join(results) ==
            IF results = <<>> THEN TRUE
            ELSE IF beta.join_type = "AND"
                 THEN \A i \in 1..Len(results) : results[i]
            ELSE IF beta.join_type = "OR"
                 THEN \E i \in 1..Len(results) : results[i]
            ELSE FALSE
    IN negate(join([i \in 1..Len(beta.parent_alphas) |->
                       IF beta.parent_alphas[i] \in DOMAIN alpha_results
                       THEN alpha_results[beta.parent_alphas[i]] ELSE FALSE]
                   \o [i \in 1..Len(beta.parent_betas) |->
                       betas[beta.parent_betas[i]].beta_memory]))

\* the local function evaluate_beta of ReteNetwork.evaluate, on the state
\* [betas, evaluated]
RECURSIVE evaluate_beta(_, _, _)
RECURSIVE evaluate_parents(_, _, _)
evaluate_parents(st, parents, alpha_results) ==
    IF parents = <<>> THEN st
    ELSE evaluate_parents(evaluate_beta(st, Head(parents), alpha_results),
                          Tail(parents), alpha_results)

evaluate_beta(st, b, alpha_results) ==
    IF b \in st.evaluated THEN st
    ELSE LET remember(st1) ==
                 [betas |-> [st1.betas EXCEPT ![b].beta_memory =
                                BetaNode_evaluate(st1.betas[b], st1.betas,
                                                  alpha_results)],
                  evaluated |-> st1.evaluated \cup {b}]
         IN remember(evaluate_parents(st, st.betas[b].parent_betas,
                                      alpha_results))

\* `for beta in self._beta_nodes: evaluate_beta(beta)`
RECURSIVE evaluate_betas(_, _, _)
evaluate_betas(st, b, alpha_results) ==
    IF b > Len(st.betas) THEN st
    ELSE evaluate_betas(evaluate_beta(st, b, alpha_results), b + 1, alpha_results)

\* Phase 3: the terminals of the betas whose memory is true, in the order
\* of the beta list
RECURSIVE CollectTerminals(_, _)
CollectTerminals(betas, b) ==
    IF b > Len(betas) THEN <<>>
    ELSE (IF betas[b].terminal # 0 /\ betas[b].beta_memory
          THEN <<betas[b].terminal>> ELSE <<>>) \o CollectTerminals(betas, b + 1)

\* the sort key of matched_terminals.sort(key=..., reverse=True)
SortKey(t) == <<t.rule_priority>>

\* k1 goes before k2 in the sorted list (reverse=True: the larger key first)
KeyBefore(k1, k2) == SeqLess(k2, k1)

\* list.sort is stable: of the elements that no other goes before, the
\* first in the list comes first
RECURSIVE StableSort(_, _)
StableSort(ts, terminals) ==
    IF ts = <<>> THEN <<>>
    ELSE LET take(first) ==
                 <<ts[first]>>
                 \o StableSort([j \in 1..(Len(ts) - 1) |->
                                   IF j < first THEN ts[j] ELSE ts[j + 1]],
                               terminals)
         IN take(CHOOSE i \in 1..Len(ts) :
                    /\ \A j \in 1..Len(ts) :
                          ~KeyBefore(SortKey(terminals[ts[j]]),
                                     SortKey(terminals[ts[i]]))
                    /\ \A j \in 1..(i - 1) :
                          KeyBefore(SortKey(terminals[ts[i]]),
                                    SortKey(terminals[ts[j]])))

\* ReteNetwork.evaluate: value is the list of matched terminals
ReteNetwork_evaluate(net, event) ==
    LET \* the sort of the matched terminals
        finish(net3, matched) ==
            Return(net3, StableSort(matched, net3.terminals))
        \* Phase 3: terminal.activate()
        collect(net2, betas, matched) ==
            finish([net2 EXCEPT
                      !.beta_nodes = betas,
                      !.terminals = [t \in 1..Len(@) |->
                          IF \E i \in 1..Len(matched) : matched[i] = t
                          THEN [@[t] EXCEPT !.is_activated = TRUE] ELSE @[t]]],
                   matched)
        \* Phase 2
        propagate(net2, st) ==
            collect(net2, st.betas, CollectTerminals(st.betas, 1))
        \* Phase 1
        activate(net1, alpha_results) ==
            propagate(ActivateAlphas(net1, event, alpha_results),
                      evaluate_betas([betas |-> net1.beta_nodes,
                                      evaluated |-> {}], 1, alpha_results))
        run(net1) ==
            IF EventHashRaises(event)
            THEN [net |-> net1, value |-> <<>>, raised |-> TRUE]
            ELSE activate(net1, AlphaResults(net1, event))
    IN run(reset_memories(net))

-----------------------------------------------------------------------------
(* rete_network.ReteEngine, on the state [network, rules_cache]            *)

\* the rows of a match report: matched_rules and execution_order
Report(matched, order) == [matched_rules |-> matched, execution_order |-> order]
NoReport == Report(<<>>, <<>>)

\* ReteEngine.load_rules: value is compile's success
load_rules(eng, rules) ==
    LET loaded(r) == [eng |-> [network |-> r.net, rules_cache |-> rules],
                      value |-> r.value, raised |-> r.raised]
    IN loaded(ReteNetwork_compile(eng.network, rules))

\* ReteEngine.evaluate: value is the match report
ReteEngine_evaluate(eng, event) ==
    LET report(r) ==
            [eng |-> [eng EXCEPT !.network = r.net],
             value |-> Report([i \in 1..Len(r.value) |->
                                  [id |-> r.net.terminals[r.value[i]].rule_id,
                                   priority |->
                                       r.net.terminals[r.value[i]].rule_priority]],
                              [i \in 1..Len(r.value) |->
                                  r.net.terminals[r.value[i]].rule_id]),
             raised |-> r.raised]
    IN report(ReteNetwork_evaluate(
                  IF ~is_compiled(eng.network) /\ eng.rules_cache # <<>>
                  THEN ReteNetwork_compile(eng.network, eng.rules_cache).net
                  ELSE eng.network,
                  event))

\* ReteEngine.invalidate
ReteEngine_invalidate(eng) ==
    [network |-> clear_network(eng.network), rules_cache |-> <<>>]

-----------------------------------------------------------------------------
(* optimized_rete_engine.OptimizedReteEngine: the two evaluation paths     *)

\* OptimizedReteEngine._evaluate_with_rete
evaluate_with_rete(eng, event, rules) ==
    LET next(l) ==
            IF l.raised THEN [eng |-> l.eng, value |-> NoReport, raised |-> TRUE]
            ELSE ReteEngine_evaluate(l.eng, event)
    IN next(load_rules(eng, rules))

\* OptimizedReteEngine._evaluate_simple_condition: "T", "F", "X" (raised)
evaluate_simple_condition(c, event) ==
    IF EventGet(event, c.field) = None THEN "F"
    ELSE IF c.op \in Operator \ {"exists", "not_exists"}
         THEN OfBool(TryBool(Compare(c.op, EventGet(event, c.field), c.value)))
    ELSE "F"                                \* Unknown operator

RECURSIVE evaluate_condition(_, _)
\* `for child in children`, returning stop at the first child with that
\* result and the other result when no child has it
RECURSIVE ShortCircuit(_, _, _)
ShortCircuit(children, event, stop) ==
    IF children = <<>> THEN Neg3(stop)
    ELSE LET next(r) == IF r = "X" THEN "X"
                        ELSE IF r = stop THEN stop
                        ELSE ShortCircuit(Tail(children), event, stop)
         IN next(evaluate_condition(Head(children), event))

\* OptimizedReteEngine._evaluate_group_condition
evaluate_group_condition(c, event) ==
    LET by(op) ==
            IF c.children = <<>> THEN "T"
            ELSE IF op = "AND" THEN ShortCircuit(c.children, event, "F")
            ELSE IF op = "OR" THEN ShortCircuit(c.children, event, "T")
            ELSE IF op = "NOT" THEN Neg3(evaluate_condition(c.children[1], event))
            ELSE "F"
    IN by(IF c.op = "" THEN "AND" ELSE c.op)

\* OptimizedReteEngine._evaluate_condition
evaluate_condition(c, event) ==
    IF IsEmptyDict(c) THEN "T"
    ELSE IF ~IsDict(c) THEN "X"             \* str has no attribute get
    ELSE IF c.type = "condition" THEN evaluate_simple_condition(c, event)
    ELSE IF c.type = "group" THEN evaluate_group_condition(c, event)
    ELSE "F"

\* OptimizedReteEngine._evaluate_simple: value is the match report
RECURSIVE evaluate_simple(_, _)
evaluate_simple(event, rules) ==
    IF rules = <<>> THEN [value |-> NoReport, raised |-> FALSE]
    ELSE LET add(rule, m, rest) ==
                 IF m = "X" \/ rest.raised
                 THEN [value |-> NoReport, raised |-> TRUE]
                 ELSE IF m = "T"
                 THEN [value |-> Report(<<[id |-> rule.id,
                                           priority |-> rule.priority]>>
                                           \o rest.value.matched_rules,
                                        <<rule.id>>
                                           \o rest.value.execution_order),
                       raised |-> FALSE]
                 ELSE rest
         IN add(Head(rules),
                evaluate_condition(Head(rules).condition_dsl, event),
                evaluate_simple(event, Tail(rules)))

-----------------------------------------------------------------------------
(* Bounds and input sets                                                   *)

MaxRules == 2        \* rules in a list of several rules
MaxPriority == 2     \* priorities 1..MaxPriority
MaxShared == 2       \* cap of the shared_conditions counter

Fields == {"a", "b"}
Absent == [t |-> "absent", v |-> <<>>]      \* the key is not in the event

MkEvent(va, vb) ==
    [f \in {x \in Fields : (IF x = "a" THEN va ELSE vb) # Absent} |->
        IF f = "a" THEN va ELSE vb]

AValues == {Absent, None, JInt(0), JInt(2), JStr(<<Ch.a>>), JList(<<2>>), JDict}
BValues == {Absent, JInt(2)}
Events  == {MkEvent(va, vb) : va \in AValues, vb \in BValues}

\* the events that lists of several rules are run on
MultiEvents == {MkEvent(va, vb) : va \in {JInt(0), JInt(2)}, vb \in BValues}

CondValues == {JInt(1), JStr(<<Ch.a>>), JList(<<2>>), JStr(<<Ch.lparen>>)}

P == Cond("a", ">", JInt(1))
Q == Cond("b", "==", JInt(2))
TreeAtoms == {P, Q}

\* one atomic condition per operator and value
AtomTrees == {Cond("a", op, val) : op \in Operator, val \in CondValues}

Connectives == {"AND", "OR", "NOT"}

\* groups of atoms: no child, one child, two children
Groups1 == {Group(op, ch) : op \in Connectives,
                            ch \in {<<>>} \cup {<<x>> : x \in TreeAtoms}
                                   \cup {<<x, y>> : x \in TreeAtoms, y \in TreeAtoms}}

\* a negated group, and a group after an atom
Groups2 == {Group("NOT", <<g>>) : g \in Groups1}
           \cup {Group(op, <<P, g>>) : op \in {"AND", "OR"}, g \in Groups1}

Groups3 == {Group("NOT", <<Group("NOT", <<Group("NOT", <<P>>)>>)>>),
            Group("AND", <<Group("NOT", <<Group("NOT", <<Q>>)>>), P>>)}

\* what the DSL grammar does not allow but the store can hold
OddTrees ==
    {EmptyDsl, Malformed,
     Group("and", <<P, Q>>), Group("or", <<P, Q>>), Group("", <<P, Q>>),
     Group("XOR", <<P>>), Group("null", <<P>>),
     Group("AND", <<P, Malformed>>), Group("OR", <<P, Group("null", <<Q>>)>>),
     Cond("", ">", JInt(1)), Cond("a", "", JInt(1)), Cond("a", "null", JInt(1)),
     Cond("a", "=~", JInt(1)),
     [EmptyDsl EXCEPT !.type = "rule"],
     Group("AND", <<[EmptyDsl EXCEPT !.type = "rule"]>>),
     Group("AND", <<P, Cond("a", "=~", JInt(1))>>)}

Trees == AtomTrees \cup Groups1 \cup Groups2 \cup Groups3 \cup OddTrees

Rule(id, priority, dsl) == [id |-> id, priority |-> priority, condition_dsl |-> dsl]

\* lists of one rule: every tree
SingleLists == {<<Rule(1, 1, t)>> : t \in Trees}

\* lists of several rules with distinct ids in any order, any priorities
MultiLists ==
    UNION {{[i \in 1..n |-> Rule(ids[i], ps[i], cs[i])] :
                ids \in {f \in [1..n -> 1..MaxRules] :
                            \A i, j \in 1..n : f[i] = f[j] => i = j},
                ps \in [1..n -> 1..MaxPriority],
                cs \in [1..n -> TreeAtoms]} : n \in 2..MaxRules}

RuleLists == {<<>>} \cup SingleLists \cup MultiLists

-----------------------------------------------------------------------------
(* The engine: one ReteEngine (OptimizedReteEngine.rete_engine), called    *)
(* with the rule list and the event drawn in Init                          *)

Engine == [network |-> network, rules_cache |-> rules_cache]

Ret(op, use_rete, ok, raised, report) ==
    [op |-> op, use_rete |-> use_rete, ok |-> ok, raised |-> raised,
     report |-> report]
NoRet == Ret("none", FALSE, FALSE, FALSE, NoReport)

InitEngine ==
    /\ rules_in \in RuleLists
    /\ event_in \in Events
    /\ Len(rules_in) > 1 => event_in \in MultiEvents
    /\ network = EmptyNetwork
    /\ rules_cache = <<>>
    /\ ret = NoRet

\* the shared_conditions counter is never reset: stop compiling at the cap
CanCompile == network.stats.shared_conditions < MaxShared

\* ReteEngine.load_rules(rules)
LoadRules ==
    /\ CanCompile
    /\ \E r \in {load_rules(Engine, rules_in)} :
          /\ network' = r.eng.network
          /\ rules_cache' = r.eng.rules_cache
          /\ ret' = Ret("load_rules", TRUE, r.value, r.raised, NoReport)
    /\ UNCHANGED <<concVars, rules_in, event_in>>

\* ReteEngine.evaluate(event)
EngineEvaluate ==
    /\ CanCompile
    /\ \E r \in {ReteEngine_evaluate(Engine, event_in)} :
          /\ network' = r.eng.network
          /\ rules_cache' = r.eng.rules_cache
          /\ ret' = Ret("evaluate", TRUE, ~r.raised, r.raised, r.value)
    /\ UNCHANGED <<concVars, rules_in, event_in>>

\* ReteEngine.invalidate()
Invalidate ==
    /\ \E eng \in {ReteEngine_invalidate(Engine)} :
          /\ network' = eng.network
          /\ rules_cache' = eng.rules_cache
    /\ ret' = Ret("invalidate", TRUE, TRUE, FALSE, NoReport)
    /\ UNCHANGED <<concVars, rules_in, event_in>>

\* OptimizedReteEngine.evaluate(event, use_rete=True) once the rule cache
\* has delivered the rule list
OptEvaluateRete ==
    /\ CanCompile
    /\ \E r \in {evaluate_with_rete(Engine, event_in, rules_in)} :
          /\ network' = r.eng.network
          /\ rules_cache' = r.eng.rules_cache
          /\ ret' = Ret("opt_evaluate", TRUE, ~r.raised, r.raised, r.value)
    /\ UNCHANGED <<concVars, rules_in, event_in>>

\* OptimizedReteEngine.evaluate(event, use_rete=False)
OptEvaluateSimple ==
    /\ \E r \in {evaluate_simple(event_in, rules_in)} :
          ret' = Ret("opt_evaluate", FALSE, ~r.raised, r.raised, r.value)
    /\ UNCHANGED <<concVars, rules_in, event_in, network, rules_cache>>

-----------------------------------------------------------------------------
(* The rule store: tables rules, rule_versions and audit_logs.  Python's   *)
(* None for a group is NoGroup.  The variable now counts the commits to    *)
(* table rules: it is the time.time() the caches stamp their entries with, *)
(* read at the only instants the properties compare.                       *)

NoGroup == "null"

\* truth value of `group` in `group or ...` and `if group:`
Falsy(group) == group = NoGroup

\* json.dumps / json.loads
json_dumps(x) == [json |-> x]
json_loads(s) == s.json

DictDel(d, ks) == [k \in (DOMAIN d) \ ks |-> d[k]]

\* the request body of RuleCreate
RuleCreate(group, priority, enabled, dsl) ==
    [group |-> group, priority |-> priority, enabled |-> enabled,
     condition_dsl |-> dsl]

\* the request body of RuleUpdate: set holds the fields the request names
\* (dict(exclude_unset=True)); a field that is not in set is None
RuleUpdate(set, group, priority, enabled, dsl) ==
    [set |-> set, group |-> group, priority |-> priority,
     enabled |-> enabled, condition_dsl |-> dsl]

\* rule.current_version += 1
bump_version_keeps(v) == v
bump_version(v) == v + 1

\* RuleService.create_rule: the row Rule(...)
new_rule_row(rule_data) ==
    [group |-> rule_data.group, priority |-> rule_data.priority,
     enabled |-> rule_data.enabled,
     condition_dsl |-> json_dumps(rule_data.condition_dsl),
     current_version |-> 1]

\* RuleService.update_rule: setattr of the fields the request names, then
\* the version bump
updated_rule_row(rule, rule_data) ==
    [group |-> IF "group" \in rule_data.set THEN rule_data.group
               ELSE rule.group,
     priority |-> IF "priority" \in rule_data.set THEN rule_data.priority
                  ELSE rule.priority,
     enabled |-> IF "enabled" \in rule_data.set THEN rule_data.enabled
                 ELSE rule.enabled,
     condition_dsl |-> IF "condition_dsl" \in rule_data.set
                       THEN json_dumps(rule_data.condition_dsl)
                       ELSE rule.condition_dsl,
     current_version |-> bump_version(rule.current_version)]

\* RuleService._create_version: the row RuleVersion(...)
create_version(rule_id, rule) ==
    [rule_id |-> rule_id, version |-> rule.current_version,
     group |-> rule.group, priority |-> rule.priority,
     enabled |-> rule.enabled, condition_dsl |-> rule.condition_dsl]

\* AuditService.log_action: one more row; n tells the rows of one action on
\* one entity apart (the table's own key does it in the code)
log_action(logs, action_type, entity_id) ==
    logs \cup {[action_type |-> action_type, entity_id |-> entity_id,
                n |-> Cardinality({a \in logs :
                                     /\ a.action_type = action_type
                                     /\ a.entity_id = entity_id}) + 1]}

\* Rule.versions, cascade="all, delete-orphan": the rows a delete leaves
cascade_delete(vs, rule_id) == {v \in vs : v.rule_id # rule_id}

-----------------------------------------------------------------------------
(* app.engine.optimized_rete_engine: RuleCache.  A tier is a dict from the *)
(* cache key to the rule list; an entry whose TTL has run out is gone.     *)

\* f"rules:{group or 'all'}"
cache_key(group) == "rules:" \o (IF Falsy(group) THEN "all" ELSE group)

\* the dict RuleCache._load_rules_from_db builds of a row
RuleDict(st, id) ==
    [id |-> id, group |-> st[id].group, priority |-> st[id].priority,
     condition_dsl |-> json_loads(st[id].condition_dsl)]

\* the orders a query may deliver the rows S in
Orderings(S) ==
    {s \in [1..Cardinality(S) -> S] :
        \A i, j \in 1..Cardinality(S) : i # j => s[i] # s[j]}

\* RuleCache._load_rules_from_db: the enabled rules (of the group, if one
\* is given) ORDER BY priority DESC; rows of equal priority in any order
load_rules_from_db(st, group) ==
    LET ids == {id \in DOMAIN st :
                  st[id].enabled /\ (Falsy(group) \/ st[id].group = group)}
        sorted == {s \in Orderings(ids) :
                     \A i \in 1..(Cardinality(ids) - 1) :
                        st[s[i]].priority >= st[s[i + 1]].priority}
    IN {[i \in 1..Cardinality(ids) |-> RuleDict(st, s[i])] : s \in sorted}

\* RuleCache.get_rules: the outcomes [rules, local, redis]
get_rules(local, rds, avail, st, group) ==
    LET key == cache_key(group)
    IN IF key \in DOMAIN local
       THEN {[rules |-> local[key], local |-> local, redis |-> rds]}
       ELSE IF avail /\ key \in DOMAIN rds
       THEN {[rules |-> json_loads(rds[key]),
              local |-> DictSet(local, key, json_loads(rds[key])),
              redis |-> rds]}
       ELSE {[rules |-> rules,
              local |-> DictSet(local, key, rules),
              redis |-> IF avail THEN DictSet(rds, key, json_dumps(rules))
                        ELSE rds] : rules \in load_rules_from_db(st, group)}

\* RuleCache.invalidate: [local, redis] afterwards
RuleCache_invalidate(rds, avail, group) ==
    [local |-> <<>>,
     redis |-> IF avail
               THEN DictDel(rds, (IF Falsy(group) THEN {}
                                  ELSE {"rules:" \o group})
                                 \cup {"rules:all", "ruleset_hash"})
               ELSE rds]

\* rule_service.invalidate_rule_cache: acts on the module's own RuleCache
invalidate_rule_cache(rds, avail, group) ==
    RuleCache_invalidate(rds, avail, group)

-----------------------------------------------------------------------------
(* app.services.optimized_conflict_detector                                *)

\* ConflictCache with no entry; with the entry "condition_hashes"
NoMap == [present |-> FALSE, map |-> <<>>, time |-> 0]
CachedMap(m, t) == [present |-> TRUE, map |-> m, time |-> t]

\* _hash_condition: md5 of json.dumps(condition, sort_keys=True); two
\* conditions have the same digest iff they have the same text
hash_condition(condition) == <<sort_keys(condition)>>

Conflict(type, id) == [type |-> type, existing_rule_id |-> id]

\* the condition maps the loop over the enabled rules can build: of the
\* rules of one hash the last row of the query stays
ConditionMaps(st) ==
    LET en == {id \in DOMAIN st : st[id].enabled}
        h(id) == hash_condition(json_loads(st[id].condition_dsl))
        hs == {h(id) : id \in en}
    IN {m \in [hs -> en] : \A k \in hs : h(m[k]) = k}

\* .first() of a query that matches the rows ids: a list of at most one
\* conflict of the type
FirstOf(type, ids) ==
    IF ids = {} THEN {{}} ELSE {{Conflict(type, id)} : id \in ids}

\* check_new_rule_conflicts: the outcomes [conflicts, cache]
check_new_rule_conflicts(st, cc, t, new_rule) ==
    LET new_group == IF Falsy(new_rule.group) THEN "default"
                     ELSE new_rule.group
        matches == {id \in DOMAIN st :
                      /\ st[id].enabled
                      /\ st[id].group = new_group
                      /\ st[id].priority = new_rule.priority}
        new_hash == hash_condition(new_rule.condition_dsl)
        caches == IF cc.present THEN {cc}
                  ELSE {CachedMap(m, t) : m \in ConditionMaps(st)}
    IN {[conflicts |-> p \cup (IF new_hash \in DOMAIN c.map
                               THEN {Conflict("duplicate_condition",
                                              c.map[new_hash])}
                               ELSE {}),
         cache |-> c] : p \in FirstOf("priority_collision", matches),
                        c \in caches}

\* check_update_rule_conflicts: the lists of conflicts it can return
check_update_rule_conflicts(st, rule_id, updated_rule) ==
    IF rule_id \notin DOMAIN st THEN {{}}
    ELSE
    LET current_rule == st[rule_id]
        has_priority == "priority" \in updated_rule.set
        has_group == "group" \in updated_rule.set
                     /\ updated_rule.group # NoGroup
        has_dsl == "condition_dsl" \in updated_rule.set
        new_priority == IF has_priority THEN updated_rule.priority
                        ELSE current_rule.priority
        new_group == IF has_group THEN updated_rule.group
                     ELSE IF Falsy(current_rule.group) THEN "default"
                     ELSE current_rule.group
        matches == {id \in DOMAIN st :
                      /\ st[id].enabled
                      /\ id # rule_id
                      /\ st[id].group = new_group
                      /\ st[id].priority = new_priority}
        same == {id \in DOMAIN st :
                   /\ st[id].enabled
                   /\ id # rule_id
                   /\ hash_condition(json_loads(st[id].condition_dsl))
                        = hash_condition(updated_rule.condition_dsl)}
        prio == IF has_priority \/ has_group
                THEN FirstOf("priority_collision", matches) ELSE {{}}
        dup == IF has_dsl THEN FirstOf("duplicate_condition", same)
               ELSE {{}}
    IN {p \cup d : p \in prio, d \in dup}

\* an index as detect_all_conflicts builds it: a dict from a key to a list,
\* as the sequence of its entries [key, items] in insertion order
Position(index, key) ==
    IF \E i \in DOMAIN index : index[i].key = key
    THEN CHOOSE i \in DOMAIN index : index[i].key = key
    ELSE 0

\* `if key not in index: index[key] = []`, `index[key].append(item)`
IndexAppend(index, key, item) ==
    LET at(i) == IF i = 0
                 THEN Append(index, [key |-> key, items |-> <<item>>])
                 ELSE [index EXCEPT ![i].items = Append(@, item)]
    IN at(Position(index, key))

\* priority_index[group_key][priority].append(...)
PriorityAppend(index, group_key, priority, id) ==
    LET at(i) == IF i = 0
                 THEN Append(index,
                             [key |-> group_key,
                              items |-> IndexAppend(<<>>, priority, id)])
                 ELSE [index EXCEPT
                         ![i].items = IndexAppend(@, priority, id)]
    IN at(Position(index, group_key))

\* the first loop of detect_all_conflicts over the rows of the query (the
\* ids in `order`): both indexes
RECURSIVE BuildIndexes(_, _, _)
BuildIndexes(st, order, acc) ==
    IF order = <<>> THEN acc
    ELSE LET id == Head(order)
             group_key == IF Falsy(st[id].group) THEN "default"
                          ELSE st[id].group
         IN BuildIndexes(st, Tail(order),
               [priority_index |->
                   PriorityAppend(acc.priority_index, group_key,
                                  st[id].priority, id),
                condition_index |->
                   IndexAppend(acc.condition_index,
                               hash_condition(
                                   json_loads(st[id].condition_dsl)),
                               id)])

\* pairs that take each rule with its successor in the list only
RECURSIVE Pairs_adjacent(_)
Pairs_adjacent(rules_list) ==
    IF Len(rules_list) < 2 THEN <<>>
    ELSE <<<<rules_list[1], rules_list[2]>>>>
         \o Pairs_adjacent(Tail(rules_list))

\* `for i, rule1 in enumerate(rules_list): for rule2 in rules_list[i+1:]`
RECURSIVE Pairs(_)
Pairs(rules_list) ==
    IF Len(rules_list) < 2 THEN <<>>
    ELSE [j \in 1..(Len(rules_list) - 1) |->
             <<rules_list[1], rules_list[j + 1]>>]
         \o Pairs(Tail(rules_list))

\* the priority collisions of one group, priority by priority
RECURSIVE GroupCollisions(_, _)
GroupCollisions(group, priorities) ==
    IF priorities = <<>> THEN <<>>
    ELSE LET found(pairs) ==
                 [k \in DOMAIN pairs |->
                    [type |-> "priority_collision",
                     rule1_id |-> pairs[k][1], rule2_id |-> pairs[k][2],
                     group |-> group, priority |-> Head(priorities).key]]
         IN found(Pairs(Head(priorities).items))
            \o GroupCollisions(group, Tail(priorities))

\* "Find priority collisions": group by group
RECURSIVE PriorityCollisions(_)
PriorityCollisions(priority_index) ==
    IF priority_index = <<>> THEN <<>>
    ELSE GroupCollisions(Head(priority_index).key,
                         Head(priority_index).items)
         \o PriorityCollisions(Tail(priority_index))

\* "Find duplicate conditions": hash by hash
RECURSIVE DuplicateConditions(_)
DuplicateConditions(condition_index) ==
    IF condition_index = <<>> THEN <<>>
    ELSE LET found(pairs) ==
                 [k \in DOMAIN pairs |->
                    [type |-> "duplicate_condition",
                     rule1_id |-> pairs[k][1], rule2_id |-> pairs[k][2]]]
         IN found(Pairs(Head(condition_index).items))
            \o DuplicateConditions(Tail(condition_index))

\* detect_all_conflicts when the query returns the enabled rows in
\* `order`: the list "conflicts"
detect_all_conflicts(st, order) ==
    LET scan(idx) == PriorityCollisions(idx.priority_index)
                     \o DuplicateConditions(idx.condition_index)
    IN scan(BuildIndexes(st, order, [priority_index |-> <<>>,
                                     condition_index |-> <<>>]))

-----------------------------------------------------------------------------
(* The rule lifecycle, the conflict checks and the cached evaluation of    *)
(* one process: the routes of app.api.routes.rules with the services they  *)
(* call, and one OptimizedReteEngine.                                      *)

MaxRuleId == 2
MaxVersion == 2

\* the event the cached evaluations run on: P and Q are both true of it
LifeEvent == MkEvent(JInt(2), JInt(2))

\* no update_rule is between its commits
Idle == [stage |-> "idle", rule_id |-> 0, old_group |-> NoGroup,
         committed |-> 0]

Resp(op, status, rule_id, conflicts, committed) ==
    [op |-> op, status |-> status, rule_id |-> rule_id,
     conflicts |-> conflicts, committed |-> committed]
NoResp == Resp("none", 0, 0, {}, 0)

\* the threads of the process that call into one engine and one cache
MaxThreads == 2
Threads == 1..MaxThreads

\* a thread that is in no call: the call it runs (op), the statement it
\* is at (pc), the locals of the call, whether an exception left the call
\* (raised) or was caught and logged in it (logged)
IdleThread ==
    [op |-> "none", pc |-> "idle", group |-> "null", rules |-> <<>>,
     ref |-> 0, result |-> <<>>, raised |-> FALSE, logged |-> FALSE]

\* no list object yet: the objects' contents now (lists) and when they
\* were loaded (loaded), the object the local tier holds under each key, the
\* object the engine holds as _rules_cache (0 for the list of its __init__)
NoHeap == [lists |-> <<>>, loaded |-> <<>>, local |-> <<>>, engine |-> 0]

\* the clock at the start: time.time(), RuleCache._local_cache_times, the
\* expiry of each Redis key, and the history of the cached data: when
\* the data of each tier was read from the store, and how old the data
\* was that the last get_rules returned
NoClock == [time |-> 0, local_cache_times |-> <<>>, expires |-> <<>>,
            local_loaded |-> <<>>, redis_loaded |-> <<>>, age |-> 0]

InitStore ==
    /\ store = <<>>
    /\ versions = {}
    /\ audit = {}
    /\ next_id = 1
    /\ upd = Idle
    /\ now = 0

InitCaches ==
    /\ svc_cache = <<>>
    /\ eng_cache = <<>>
    /\ redis = <<>>
    /\ conflict_cache = NoMap
    /\ resp = NoResp
    /\ threads = [t \in Threads |-> IdleThread]
    /\ heap = NoHeap
    /\ clock = NoClock

\* POST /rules: the conflict check unless skipped (400 on a conflict), then
\* invalidate_conflict_cache, then RuleService.create_rule: the rule row,
\* its version row and the audit row in one commit, then
\* invalidate_rule_cache(group)
ApiCreateRule(rule, skip_conflict_check) ==
    /\ next_id <= MaxRuleId
    /\ \E chk \in (IF skip_conflict_check
                   THEN {[conflicts |-> {}, cache |-> conflict_cache]}
                   ELSE check_new_rule_conflicts(store, conflict_cache,
                                                 now, rule)) :
          IF chk.conflicts # {}
          THEN /\ conflict_cache' = chk.cache
               /\ resp' = Resp("create", 400, 0, chk.conflicts, 0)
               /\ UNCHANGED <<store, versions, audit, next_id, now,
                              svc_cache, redis>>
          ELSE LET row == new_rule_row(rule)
                   inv == invalidate_rule_cache(redis, redis_available,
                                                rule.group)
               IN /\ conflict_cache' = NoMap
                  /\ store' = DictSet(store, next_id, row)
                  /\ versions' = versions
                                 \cup {create_version(next_id, row)}
                  /\ audit' = log_action(audit, "create", next_id)
                  /\ next_id' = next_id + 1
                  /\ now' = now + 1
                  /\ svc_cache' = inv.local
                  /\ redis' = inv.redis
                  /\ resp' = Resp("create", 200, next_id, {}, now + 1)
    /\ UNCHANGED <<concVars, engineVars, upd, eng_cache, redis_available>>

\* PUT /rules/{rule_id} up to the first commit of RuleService.update_rule:
\* the conflict check (400), get_rule (404), the fields and the version
\* bump, commit of the rule row
ApiUpdateRule(rule_id, rule_update) ==
    /\ upd = Idle
    /\ rule_id \in DOMAIN store
         => store[rule_id].current_version < MaxVersion
    /\ \E conflicts \in check_update_rule_conflicts(store, rule_id,
                                                    rule_update) :
          IF conflicts # {}
          THEN /\ resp' = Resp("update", 400, rule_id, conflicts, 0)
               /\ UNCHANGED <<store, now, upd>>
          ELSE IF rule_id \notin DOMAIN store
          THEN /\ resp' = Resp("update", 404, rule_id, {}, 0)
               /\ UNCHANGED <<store, now, upd>>
          ELSE /\ store' = DictSet(store, rule_id,
                              updated_rule_row(store[rule_id], rule_update))
               /\ now' = now + 1
               /\ upd' = [stage |-> "version", rule_id |-> rule_id,
                          old_group |-> store[rule_id].group,
                          committed |-> now + 1]
               /\ UNCHANGED resp
    /\ UNCHANGED <<concVars, engineVars, versions, audit, next_id, cacheVars>>

\* RuleService.update_rule, second commit: _create_version
UpdateCreateVersion ==
    /\ upd.stage = "version"
    /\ versions' = versions
                   \cup {create_version(upd.rule_id, store[upd.rule_id])}
    /\ upd' = [upd EXCEPT !.stage = "audit"]
    /\ UNCHANGED <<concVars, engineVars, store, audit, next_id, now, cacheVars, resp>>

\* RuleService.update_rule, third commit and return: log_action, then
\* invalidate_rule_cache of the old group and, if it changed, of the new
UpdateLogAction ==
    /\ upd.stage = "audit"
    /\ audit' = log_action(audit, "update", upd.rule_id)
    /\ LET new_group == store[upd.rule_id].group
           inv1 == invalidate_rule_cache(redis, redis_available,
                                         upd.old_group)
           inv2 == IF new_group # upd.old_group
                   THEN invalidate_rule_cache(inv1.redis, redis_available,
                                              new_group)
                   ELSE inv1
       IN /\ svc_cache' = inv2.local
          /\ redis' = inv2.redis
    /\ resp' = Resp("update", 200, upd.rule_id, {}, upd.committed)
    /\ upd' = Idle
    /\ UNCHANGED <<concVars, engineVars, store, versions, next_id, now, eng_cache,
                   redis_available, conflict_cache>>

\* RuleService.update_rule: a commit after the first raises (the database
\* is locked or gone); the session rolls back what is not committed
UpdateFails ==
    /\ upd.stage \in {"version", "audit"}
    /\ resp' = Resp("update", 500, upd.rule_id, {}, upd.committed)
    /\ upd' = Idle
    /\ UNCHANGED <<concVars, engineVars, store, versions, audit, next_id, now,
                   cacheVars>>

\* DELETE /rules/{rule_id}: RuleService.delete_rule (404 if it returns
\* False): the row and, by the cascade, its versions; the audit row;
\* invalidate_rule_cache(group)
ApiDeleteRule(rule_id) ==
    /\ upd.rule_id # rule_id
    /\ IF rule_id \notin DOMAIN store
       THEN /\ resp' = Resp("delete", 404, rule_id, {}, 0)
            /\ UNCHANGED <<store, versions, audit, now, svc_cache, redis>>
       ELSE LET inv == invalidate_rule_cache(redis, redis_available,
                                             store[rule_id].group)
            IN /\ store' = DictDel(store, {rule_id})
               /\ versions' = cascade_delete(versions, rule_id)
               /\ audit' = log_action(audit, "delete", rule_id)
               /\ now' = now + 1
               /\ svc_cache' = inv.local
               /\ redis' = inv.redis
               /\ resp' = Resp("delete", 200, rule_id, {}, now + 1)
    /\ UNCHANGED <<concVars, engineVars, next_id, upd, eng_cache, redis_available,
                   conflict_cache>>

\* POST /rules/validate: check_new_rule_conflicts
ApiValidateRule(rule) ==
    /\ \E chk \in check_new_rule_conflicts(store, conflict_cache, now,
                                           rule) :
          /\ conflict_cache' = chk.cache
          /\ resp' = Resp("validate", 200, 0, chk.conflicts, 0)
    /\ UNCHANGED <<concVars, engineVars, storeVars, svc_cache, eng_cache, redis,
                   redis_available>>

\* ConflictCache.get: the entry is older than the TTL and is dropped
ConflictCacheExpires ==
    /\ conflict_cache.present
    /\ conflict_cache' = NoMap
    /\ UNCHANGED <<concVars, engineVars, storeVars, svc_cache, eng_cache, redis,
                   redis_available, resp>>

\* OptimizedReteEngine.__init__: a request builds an engine of its own,
\* with an empty local tier and an empty network
NewEngine ==
    /\ eng_cache' = <<>>
    /\ network' = EmptyNetwork
    /\ rules_cache' = <<>>
    /\ ret' = NoRet
    /\ resp' = Resp("new_engine", 200, 0, {}, 0)
    /\ UNCHANGED <<concVars, rules_in, event_in, storeVars, svc_cache, redis,
                   redis_available, conflict_cache>>

\* OptimizedReteEngine.evaluate(event, group=group) on the engine at hand:
\* the rules of its RuleCache, then the RETE evaluation
OptEvaluate(group) ==
    /\ CanCompile
    /\ \E got \in get_rules(eng_cache, redis, redis_available, store,
                            group) :
       \E r \in {evaluate_with_rete(Engine, event_in, got.rules)} :
             /\ eng_cache' = got.local
             /\ redis' = got.redis
             /\ network' = r.eng.network
             /\ rules_cache' = r.eng.rules_cache
             /\ ret' = Ret("opt_evaluate", TRUE, ~r.raised, r.raised,
                           r.value)
    /\ resp' = Resp("evaluate", 200, 0, {}, 0)
    /\ UNCHANGED <<concVars, rules_in, event_in, storeVars, svc_cache,
                   redis_available, conflict_cache>>

\* RuleCache._is_local_cache_valid: the entry of the key is older than
\* _local_cache_ttl
LocalEntryExpires(key) ==
    /\ key \in DOMAIN eng_cache
    /\ eng_cache' = DictDel(eng_cache, {key})
    /\ UNCHANGED <<concVars, engineVars, storeVars, svc_cache, redis,
                   redis_available, conflict_cache, resp>>

\* RuleCache._update_redis_cache, setex with CACHE_TTL: the key expires
RedisKeyExpires(key) ==
    /\ key \in DOMAIN redis
    /\ redis' = DictDel(redis, {key})
    /\ UNCHANGED <<concVars, engineVars, storeVars, svc_cache, eng_cache,
                   redis_available, conflict_cache, resp>>

-----------------------------------------------------------------------------
(* Specification of the engine                                             *)

Init == InitEngine /\ InitStore /\ InitCaches /\ redis_available = FALSE

Next ==
    \/ LoadRules /\ UNCHANGED <<storeVars, cacheVars, resp>>
    \/ EngineEvaluate /\ UNCHANGED <<storeVars, cacheVars, resp>>
    \/ Invalidate /\ UNCHANGED <<storeVars, cacheVars, resp>>
    \/ OptEvaluateRete /\ UNCHANGED <<storeVars, cacheVars, resp>>
    \/ OptEvaluateSimple /\ UNCHANGED <<storeVars, cacheVars, resp>>

Spec == Init /\ [][Next]_vars

-----------------------------------------------------------------------------
(* Properties of the engine (specification Spec)                           *)

\* a tree of the DSL grammar: atomic conditions with a field and an
\* operator of the closed set, AND/OR/NOT groups of such trees
RECURSIVE WellFormed(_)
WellFormed(c) ==
    \/ c.type = "condition" /\ c.field # "" /\ c.op \in Operator
    \/ /\ c.type = "group"
       /\ c.op \in Connectives
       /\ \A i \in 1..Len(c.children) : WellFormed(c.children[i])

\* the recursive semantics of a condition tree: AND is true iff all
\* children are, OR iff some child is, NOT negates the first child, an
\* empty group is true
RECURSIVE TreeTrue(_, _)
TreeTrue(c, event) ==
    IF c.type = "condition" THEN AlphaCondition_evaluate(AlphaCondition(c), event)
    ELSE IF c.children = <<>> THEN TRUE
    ELSE IF c.op = "AND" THEN \A i \in 1..Len(c.children) : TreeTrue(c.children[i], event)
    ELSE IF c.op = "OR" THEN \E i \in 1..Len(c.children) : TreeTrue(c.children[i], event)
    ELSE ~TreeTrue(c.children[1], event)

UniqueIds(rules) ==
    \A i, j \in 1..Len(rules) : rules[i].id = rules[j].id => i = j
PriorityDescending(rules) ==
    \A i, j \in 1..Len(rules) : i < j => rules[i].priority >= rules[j].priority
DslRules(rules) ==
    \A i \in 1..Len(rules) :
        IsEmptyDict(rules[i].condition_dsl) \/ WellFormed(rules[i].condition_dsl)

ReteReturned ==
    /\ ret.op \in {"evaluate", "opt_evaluate"}
    /\ ret.use_rete

\* C1: for a rule list with unique ids in priority-descending order, made
\* of DSL trees or empty conditions, and an event of scalars, the RETE path
\* of OptimizedReteEngine.evaluate returns the matched rules and the
\* execution order that the linear path returns.
C1_ReteEqualsLinear ==
    (/\ ret.op = "opt_evaluate" /\ ret.use_rete
     /\ UniqueIds(rules_in) /\ PriorityDescending(rules_in) /\ DslRules(rules_in)
     /\ ~EventHashRaises(event_in))
    => /\ ~ret.raised
       /\ ~evaluate_simple(event_in, rules_in).raised
       /\ ret.report = evaluate_simple(event_in, rules_in).value

\* C2: a rule whose condition is a DSL tree is matched by the network
\* exactly when the tree is true under the recursive semantics.
C2_MatchIffTreeTrue ==
    (ReteReturned /\ ~ret.raised /\ rules_cache = rules_in /\ UniqueIds(rules_in))
    => \A i \in 1..Len(rules_in) :
          WellFormed(rules_in[i].condition_dsl) =>
             ((\E k \in 1..Len(ret.report.execution_order) :
                   ret.report.execution_order[k] = rules_in[i].id)
              <=> TreeTrue(rules_in[i].condition_dsl, event_in))

\* C3: the matched rules are sorted by priority descending and, among rules
\* of equal priority, by rule id ascending.
C3_PriorityThenId ==
    (ReteReturned /\ ~ret.raised)
    => \A i, j \in 1..Len(ret.report.matched_rules) :
          i < j =>
            LET x == ret.report.matched_rules[i]
                y == ret.report.matched_rules[j]
            IN \/ x.priority > y.priority
               \/ x.priority = y.priority /\ x.id < y.id

\* C9: evaluating an event on a compiled network returns a match report
\* and never raises.
C9_EvaluateNeverRaises ==
    (ReteReturned /\ is_compiled(network)) => ~ret.raised

\* the construction of the network raises on this tree: a node that is no
\* object, or a group whose op is null
RECURSIVE TreeRaises(_)
TreeRaises(c) ==
    \/ ~IsDict(c)
    \/ /\ c.type = "group"
       /\ \/ c.op = "null"
          \/ \E i \in 1..Len(c.children) : TreeRaises(c.children[i])
BuildRaises(rules) ==
    \E i \in 1..Len(rules) :
        ~IsEmptyDict(rules[i].condition_dsl) /\ TreeRaises(rules[i].condition_dsl)

NetworkCleared ==
    /\ network.alpha_nodes = <<>>
    /\ network.beta_nodes = <<>>
    /\ network.terminals = <<>>
    /\ DOMAIN network.terminal_nodes = {}
    /\ DOMAIN network.field_to_alphas = {}
    /\ ~is_compiled(network)

-----------------------------------------------------------------------------
(* Specifications of the lifecycle.  They share the actions and differ in  *)
(* the requests they draw.                                                 *)

RuleIds == 1..MaxRuleId

InitLife ==
    /\ rules_in = <<>>
    /\ event_in = LifeEvent
    /\ network = EmptyNetwork
    /\ rules_cache = <<>>
    /\ ret = NoRet
    /\ InitStore
    /\ InitCaches
    /\ redis_available \in BOOLEAN

\* an update that names one field, or none
UpdateGroup(group) == RuleUpdate({"group"}, group, 1, TRUE, P)
UpdateEnabled(e)   == RuleUpdate({"enabled"}, NoGroup, 1, e, P)
UpdateDsl(dsl)     == RuleUpdate({"condition_dsl"}, NoGroup, 1, TRUE, dsl)
UpdateNothing      == RuleUpdate({}, NoGroup, 1, TRUE, P)

\* ---- the store: rules, versions, audit rows ----
StoreCreates == {RuleCreate("fraud", 1, TRUE, P)}
StoreUpdates == {UpdateEnabled(FALSE), UpdateNothing}

NextStore ==
    \/ \E rule \in StoreCreates : ApiCreateRule(rule, TRUE)
    \/ \E id \in RuleIds, u \in StoreUpdates : ApiUpdateRule(id, u)
    \/ UpdateCreateVersion
    \/ UpdateLogAction
    \/ UpdateFails
    \/ \E id \in RuleIds : ApiDeleteRule(id)

\* get_redis_client() gives no client: the rule caches have no Redis tier
InitNoRedis == InitLife /\ redis_available = FALSE

SpecStore == InitNoRedis /\ [][NextStore]_vars

\* ---- the rule cache: mutations that return, and evaluations ----
\* rules are created in group "fraud" and moved to group "ops"; the engine
\* evaluates group "fraud" and all groups
CacheCreates == {RuleCreate("fraud", 1, TRUE, P)}
CacheUpdates == {UpdateGroup("ops")}
EvalGroups == {NoGroup, "fraud"}
CacheKeys == {cache_key(g) : g \in EvalGroups}

NextCache ==
    \/ \E rule \in CacheCreates : ApiCreateRule(rule, TRUE)
    \/ \E id \in RuleIds, u \in CacheUpdates : ApiUpdateRule(id, u)
    \/ UpdateCreateVersion
    \/ UpdateLogAction
    \/ \E id \in RuleIds : ApiDeleteRule(id)
    \/ NewEngine
    \/ \E g \in EvalGroups : OptEvaluate(g)
    \/ \E key \in CacheKeys : LocalEntryExpires(key)
    \/ \E key \in CacheKeys : RedisKeyExpires(key)

SpecCache == InitLife /\ [][NextCache]_vars

\* ---- the conflict checks ----
ConflictCreates ==
    {RuleCreate(g, p, TRUE, dsl) : g \in {NoGroup, "default"},
                                   p \in 1..MaxPriority, dsl \in {P, Q}}
ConflictUpdates ==
    {UpdateDsl(Q), UpdateEnabled(FALSE)}

NextConflict ==
    \/ \E rule \in ConflictCreates, skip \in BOOLEAN :
          ApiCreateRule(rule, skip)
    \/ \E id \in RuleIds, u \in ConflictUpdates : ApiUpdateRule(id, u)
    \/ UpdateCreateVersion
    \/ UpdateLogAction
    \/ \E id \in RuleIds : ApiDeleteRule(id)
    \/ \E rule \in ConflictCreates : ApiValidateRule(rule)
    \/ ConflictCacheExpires

SpecConflict == InitLife /\ [][NextConflict]_vars

-----------------------------------------------------------------------------
(* Properties of the lifecycle                                             *)

\* the rule lists an evaluation of the group must run on: the enabled
\* rules of the committed store
FreshRules(group) == load_rules_from_db(store, group)

\* C4: once every mutation has committed and invalidated the rule cache,
\* an evaluation that starts afterwards, on whatever engine instance, runs
\* on the enabled rules of the store as it is now, be it of one group or of
\* all groups.
C4_EvaluationSeesMutation ==
    [][\A g \in EvalGroups :
          (upd = Idle /\ OptEvaluate(g)) => rules_cache' \in FreshRules(g)]_vars

\* the same of an engine whose local tier is empty: the tier of Redis is
\* invalidated by every mutation
C4_FreshEngineSeesMutation ==
    [][\A g \in EvalGroups :
          (upd = Idle /\ eng_cache = <<>> /\ OptEvaluate(g))
             => rules_cache' \in FreshRules(g)]_vars

\* a create, update or delete through the API has returned with success
MutationReturned ==
    resp.op \in {"create", "update", "delete"} /\ resp.status = 200

\* C5: when a create, update or delete through the API has returned with
\* success, the conflict cache holds no condition map built before the
\* commit of that mutation.
C5_NoMapOlderThanMutation ==
    MutationReturned
       => (conflict_cache.present => conflict_cache.time >= resp.committed)

\* the same of a create alone
C5_NoMapOlderThanCreate ==
    (resp.op = "create" /\ resp.status = 200)
       => (conflict_cache.present => conflict_cache.time >= resp.committed)

\* `group or "default"`: a null group and "default" are one group
GroupOrDefault(group) == IF Falsy(group) THEN "default" ELSE group

\* the store holds an enabled rule of the priority and the
\* group-or-default of the incoming rule
Collides(rule) ==
    \E id \in DOMAIN store :
       /\ store[id].enabled
       /\ store[id].priority = rule.priority
       /\ GroupOrDefault(store[id].group) = GroupOrDefault(rule.group)

\* C6: check_new_rule_conflicts reports a priority_collision whenever the
\* store holds an enabled rule of the same priority and the same
\* group-or-default as the incoming rule, a null group being the group
\* "default".
C6_NullGroupCollides ==
    [][\A rule \in ConflictCreates :
          (ApiValidateRule(rule) /\ Collides(rule))
             => \E c \in resp'.conflicts : c.type = "priority_collision"]_vars

\* the same where no row of the store has a null group
C6_NamedGroupCollides ==
    [][\A rule \in ConflictCreates :
          (/\ ApiValidateRule(rule)
           /\ Collides(rule)
           /\ \A id \in DOMAIN store : store[id].group # NoGroup)
             => \E c \in resp'.conflicts : c.type = "priority_collision"]_vars

\* C7: in every committed state each live rule of current_version k has a
\* version row of version k.
C7_CurrentVersionHasRow ==
    \A id \in DOMAIN store :
       \E v \in versions :
          v.rule_id = id /\ v.version = store[id].current_version

\* C8: a rule has current_version 1 right after its creation, exactly the
\* prior + 1 after each update that reaches the store, never a smaller one
\* than before, and an update or delete of a rule that does not exist
\* leaves the store as it is.
C8_VersionCounts ==
    [][\A id \in RuleIds :
          /\ (id \notin DOMAIN store /\ id \in DOMAIN store')
                => store'[id].current_version = 1
          /\ (id \in DOMAIN store /\ id \in DOMAIN store')
                => store'[id].current_version >= store[id].current_version
          /\ (upd = Idle /\ upd'.stage = "version" /\ upd'.rule_id = id)
                => store'[id].current_version
                      = store[id].current_version + 1
          /\ (/\ id \notin DOMAIN store
              /\ \/ \E u \in StoreUpdates : ApiUpdateRule(id, u)
                 \/ ApiDeleteRule(id))
                => (store' = store /\ resp'.status = 404)]_vars

\* a rule has been created and updated, and an update or a delete of a rule
\* that does not exist has just been refused
C8_Witness ==
    /\ \E id \in DOMAIN store : store[id].current_version > 1
    /\ resp.status = 404

-----------------------------------------------------------------------------
(* Specification of compilation: one ReteEngine that loads, evaluates and  *)
(* invalidates rule lists whose trees repeat atomic conditions             *)

DictAB == Cond("a", "==", JObj(<<Ch.a, Ch.b>>))    \* {"a": 1, "b": 1}
DictBA == Cond("a", "==", JObj(<<Ch.b, Ch.a>>))    \* {"b": 1, "a": 1}
Int1   == Cond("a", "==", JInt(1))                 \* 1
Str1   == Cond("a", "==", JStr(<<1>>))             \* "1"

ShareAtoms == {P, Q, Int1, Str1, DictAB, DictBA}

ShareTrees == ShareAtoms \cup {Group("AND", <<P, x>>) : x \in ShareAtoms}
                         \cup {Group("OR", <<DictAB, DictBA>>),
                               Group("NOT", <<Q>>)}

\* lists of rules 1..n of priority 1
CompileLists ==
    UNION {{[i \in 1..n |-> Rule(i, 1, cs[i])] : cs \in [1..n -> ShareTrees]} :
              n \in 1..MaxRules}

CompileEvents == {MkEvent(JInt(2), JInt(2)), MkEvent(JInt(1), Absent),
                  MkEvent(JObj(<<Ch.a, Ch.b>>), Absent)}

InitCompile ==
    /\ rules_in \in CompileLists
    /\ event_in \in CompileEvents
    /\ network = EmptyNetwork
    /\ rules_cache = <<>>
    /\ ret = NoRet
    /\ InitStore
    /\ InitCaches
    /\ redis_available = FALSE

NextCompile ==
    \/ LoadRules /\ UNCHANGED <<storeVars, cacheVars, resp>>
    \/ EngineEvaluate /\ UNCHANGED <<storeVars, cacheVars, resp>>
    \/ Invalidate /\ UNCHANGED <<storeVars, cacheVars, resp>>

SpecCompile == InitCompile /\ [][NextCompile]_vars

-----------------------------------------------------------------------------
(* Properties of compilation (specification SpecCompile)                   *)

\* the atomic conditions of a tree that have a field and an operator of
\* the closed set, as triples (field, op, value)
RECURSIVE Triples(_)
Triples(c) ==
    IF ~IsDict(c) THEN {}
    ELSE IF c.type = "condition"
    THEN (IF c.field # "" /\ c.op \in Operator THEN {AlphaCondition(c)} ELSE {})
    ELSE IF c.type = "group"
    THEN UNION {Triples(c.children[i]) : i \in 1..Len(c.children)}
    ELSE {}

TriplesOf(rules) ==
    UNION {Triples(rules[i].condition_dsl) : i \in 1..Len(rules)}

\* the elements of a set of numbers in ascending order
RECURSIVE Ascending(_)
Ascending(S) ==
    IF S = {} THEN <<>>
    ELSE <<CHOOSE x \in S : \A y \in S : x <= y>>
         \o Ascending(S \ {CHOOSE x \in S : \A y \in S : x <= y})

\* one representative of the triples that are equal: an object is the
\* same value whatever the order of its keys
SameTriple(ac) ==
    IF ac.value.t = "dict"
    THEN [ac EXCEPT !.value = JObj(Ascending(Keys(ac.value)))]
    ELSE ac

DistinctTriples(rules) == {SameTriple(ac) : ac \in TriplesOf(rules)}

\* the alpha nodes of the network that test the triple
AlphasOf(net, ac) ==
    {i \in 1..Len(net.alpha_nodes) :
        SameTriple(net.alpha_nodes[i].condition) = SameTriple(ac)}

\* load_rules has returned True: the network is compiled from rules_in
Compiled == ret.op = "load_rules" /\ ret.ok /\ rules_cache = rules_in

\* C11: after compile(R) the network holds exactly one AlphaNode per
\* distinct triple (field, op, value) of R, every leaf beta of a triple has
\* that node as its parent, and the alpha_nodes statistic is the number of
\* distinct triples.
C11_OneAlphaPerTriple ==
    Compiled =>
       /\ \A ac \in TriplesOf(rules_in) :
             Cardinality(AlphasOf(network, ac)) = 1
       /\ \A b \in 1..Len(network.beta_nodes) :
             \A k \in 1..Len(network.beta_nodes[b].parent_alphas) :
                \E ac \in TriplesOf(rules_in) :
                   AlphasOf(network, ac) = {network.beta_nodes[b].parent_alphas[k]}
       /\ network.stats.alpha_nodes = Cardinality(DistinctTriples(rules_in))

\* the rule list holds no two spellings of one object
OneSpelling(rules) ==
    \A ac, other \in TriplesOf(rules) :
       SameTriple(ac) = SameTriple(other) => ac = other

\* the sharing of C11 for rule lists in which equal values are spelled the
\* same way
C11_OneAlphaPerSpelling == OneSpelling(rules_in) => C11_OneAlphaPerTriple

-----------------------------------------------------------------------------
(* Concurrent calls of OptimizedReteEngine.evaluate on one engine.  A step *)
(* is what a thread does while it holds a lock: ReteEngine.load_rules      *)
(* (ReteEngine._lock), ReteNetwork.evaluate with the report built from the *)
(* terminals it returned (ReteNetwork._lock).                              *)

\* the rule lists the calls run on: what the rule cache delivered for the
\* group, filtered by rule_ids
ThreadLists == {<<>>, <<Rule(1, 1, P)>>, <<Rule(2, 1, Q)>>,
                <<Rule(1, 1, P), Rule(2, 1, Q)>>}

\* OptimizedReteEngine.evaluate up to the call of _evaluate_with_rete
CallEvaluate(t, rules) ==
    /\ threads[t].pc = "idle"
    /\ threads' = [threads EXCEPT ![t] =
                      [IdleThread EXCEPT !.op = "evaluate",
                                         !.pc = "load_rules",
                                         !.rules = rules]]
    /\ UNCHANGED <<clock, heap, engineVars, storeVars, cacheVars, resp>>

\* _evaluate_with_rete: self.rete_engine.load_rules(rules)
ThreadLoadRules(t) ==
    /\ threads[t].pc = "load_rules"
    /\ CanCompile
    /\ \E r \in {load_rules(Engine, threads[t].rules)} :
          /\ network' = r.eng.network
          /\ rules_cache' = r.eng.rules_cache
          /\ ret' = Ret("load_rules", TRUE, r.value, r.raised, NoReport)
    /\ threads' = [threads EXCEPT ![t].pc = "evaluate"]
    /\ heap' = [heap EXCEPT !.engine = threads[t].ref]
    /\ UNCHANGED <<clock, rules_in, event_in, storeVars, cacheVars, resp>>

\* _evaluate_with_rete: result = self.rete_engine.evaluate(event)
ThreadEvaluate(t) ==
    /\ threads[t].pc = "evaluate"
    /\ CanCompile
    /\ \E r \in {ReteEngine_evaluate(Engine, event_in)} :
          /\ network' = r.eng.network
          /\ rules_cache' = r.eng.rules_cache
          /\ ret' = Ret("evaluate", TRUE, ~r.raised, r.raised, r.value)
          /\ threads' = [threads EXCEPT ![t].pc = "returned",
                                        ![t].result = r.value,
                                        ![t].raised = r.raised]
    /\ UNCHANGED <<clock, heap, rules_in, event_in, storeVars, cacheVars, resp>>

\* the caller has its result; the thread is free for the next call
ThreadReturn(t) ==
    /\ threads[t].pc = "returned"
    /\ threads' = [threads EXCEPT ![t] = IdleThread]
    /\ UNCHANGED <<clock, heap, engineVars, storeVars, cacheVars, resp>>

InitThreads ==
    /\ rules_in = <<>>
    /\ event_in \in {MkEvent(JInt(2), JInt(2)), MkEvent(JInt(2), Absent)}
    /\ network = EmptyNetwork
    /\ rules_cache = <<>>
    /\ ret = NoRet
    /\ InitStore
    /\ InitCaches
    /\ redis_available = FALSE

NextThreads ==
    \/ \E t \in Threads, rules \in ThreadLists : CallEvaluate(t, rules)
    \/ \E t \in Threads : ThreadLoadRules(t)
    \/ \E t \in Threads : ThreadEvaluate(t)
    \/ \E t \in Threads : ThreadReturn(t)

SpecThreads == InitThreads /\ [][NextThreads]_vars

\* what the call returns when no other call runs on the engine
AloneReport(rules) ==
    evaluate_with_rete([network |-> EmptyNetwork, rules_cache |-> <<>>],
                       event_in, rules).value

\* C12: each of two concurrent evaluate calls on one engine returns the
\* matched rules it would return if it ran alone.
C12_ConcurrentAsAlone ==
    \A t \in Threads :
       (threads[t].op = "evaluate" /\ threads[t].pc = "returned")
       => threads[t].result = AloneReport(threads[t].rules)

\* the same for a call that evaluates while the engine holds the call's own
\* list
C12_OwnListAsAlone ==
    [][\A t \in Threads :
          (ThreadEvaluate(t) /\ rules_cache = threads[t].rules)
          => threads'[t].result = AloneReport(threads[t].rules)]_vars

-----------------------------------------------------------------------------
(* RuleCache.get_rules and RuleCache.invalidate statement by statement, on *)
(* the RuleCache of one engine (eng_cache, redis).  A step is one locked   *)
(* section of RuleCache._lock, one Redis command or one query.  No local   *)
(* entry runs out of its TTL while the calls run.                          *)

\* cache.get_rules(db, group)
CallGetRules(t, group) ==
    /\ threads[t].pc = "idle"
    /\ threads' = [threads EXCEPT ![t] =
                      [IdleThread EXCEPT !.op = "get_rules",
                                         !.pc = "is_local_cache_valid",
                                         !.group = group]]
    /\ UNCHANGED <<clock, heap, engineVars, storeVars, cacheVars, resp>>

\* RuleCache._is_local_cache_valid, under the lock
IsLocalCacheValid(t) ==
    /\ threads[t].pc = "is_local_cache_valid"
    /\ threads' = [threads EXCEPT ![t].pc =
                      IF cache_key(threads[t].group) \in DOMAIN eng_cache
                      THEN "local_cache_get" ELSE "redis_get"]
    /\ UNCHANGED <<clock, heap, engineVars, storeVars, cacheVars, resp>>

\* `return self._local_cache.get(cache_key, [])`, outside the lock
LocalCacheGet(t) ==
    /\ threads[t].pc = "local_cache_get"
    /\ threads' = [threads EXCEPT
                     ![t].pc = "returned",
                     ![t].result =
                         IF cache_key(threads[t].group) \in DOMAIN eng_cache
                         THEN eng_cache[cache_key(threads[t].group)]
                         ELSE <<>>]
    /\ UNCHANGED <<clock, heap, engineVars, storeVars, cacheVars, resp>>

\* a redis.get whose exception leaves get_rules
RedisGet_raises(t, fails) ==
    /\ threads[t].pc = "redis_get"
    /\ fails => redis_available
    /\ threads' =
          IF fails
          THEN [threads EXCEPT ![t].pc = "returned", ![t].raised = TRUE]
          ELSE IF redis_available
                  /\ cache_key(threads[t].group) \in DOMAIN redis
          THEN [threads EXCEPT
                  ![t].pc = "update_local_cache",
                  ![t].op = "get_rules_redis",
                  ![t].rules = json_loads(redis[cache_key(threads[t].group)])]
          ELSE [threads EXCEPT ![t].pc = "load_rules_from_db"]
    /\ UNCHANGED <<clock, heap, engineVars, storeVars, cacheVars, resp>>

\* `cached = self.redis.get(...)` in its try block: a hit, a miss, or an
\* exception that is logged (fails)
RedisGet(t, fails) ==
    /\ threads[t].pc = "redis_get"
    /\ fails => redis_available
    /\ threads' =
          IF redis_available /\ ~fails
             /\ cache_key(threads[t].group) \in DOMAIN redis
          THEN [threads EXCEPT
                  ![t].pc = "update_local_cache",
                  ![t].op = "get_rules_redis",
                  ![t].rules = json_loads(redis[cache_key(threads[t].group)])]
          ELSE [threads EXCEPT ![t].pc = "load_rules_from_db",
                               ![t].logged = fails]
    /\ UNCHANGED <<clock, heap, engineVars, storeVars, cacheVars, resp>>

\* `rules = self._load_rules_from_db(db, group)`
LoadRulesFromDb(t) ==
    /\ threads[t].pc = "load_rules_from_db"
    /\ \E rules \in load_rules_from_db(store, threads[t].group) :
          threads' = [threads EXCEPT ![t].pc = "update_local_cache",
                                     ![t].rules = rules]
    /\ UNCHANGED <<clock, heap, engineVars, storeVars, cacheVars, resp>>

\* RuleCache._update_local_cache, under the lock; after a Redis hit the
\* call returns
UpdateLocalCache(t) ==
    /\ threads[t].pc = "update_local_cache"
    /\ eng_cache' = DictSet(eng_cache, cache_key(threads[t].group),
                            threads[t].rules)
    /\ threads' =
          IF threads[t].op = "get_rules_redis"
          THEN [threads EXCEPT ![t].pc = "returned",
                               ![t].result = threads[t].rules]
          ELSE [threads EXCEPT ![t].pc = "update_redis_cache"]
    /\ UNCHANGED <<clock, heap, engineVars, storeVars, svc_cache, redis,
                   redis_available, conflict_cache, resp>>

\* RuleCache._update_redis_cache (setex in its try block), then
\* `return rules`
UpdateRedisCache(t, fails) ==
    /\ threads[t].pc = "update_redis_cache"
    /\ fails => redis_available
    /\ redis' = IF redis_available /\ ~fails
                THEN DictSet(redis, cache_key(threads[t].group),
                             json_dumps(threads[t].rules))
                ELSE redis
    /\ threads' = [threads EXCEPT ![t].pc = "returned",
                                  ![t].result = threads[t].rules,
                                  ![t].logged = @ \/ fails]
    /\ UNCHANGED <<clock, heap, engineVars, storeVars, svc_cache, eng_cache,
                   redis_available, conflict_cache, resp>>

\* cache.invalidate(group)
CallInvalidate(t, group) ==
    /\ threads[t].pc = "idle"
    /\ threads' = [threads EXCEPT ![t] =
                      [IdleThread EXCEPT !.op = "invalidate",
                                         !.pc = "local_cache_clear",
                                         !.group = group]]
    /\ UNCHANGED <<clock, heap, engineVars, storeVars, cacheVars, resp>>

\* invalidate: the locked section that clears the local tier
LocalCacheClear(t) ==
    /\ threads[t].pc = "local_cache_clear"
    /\ eng_cache' = <<>>
    /\ threads' = [threads EXCEPT ![t].pc =
                      IF ~redis_available THEN "returned"
                      ELSE IF Falsy(threads[t].group) THEN "delete_all"
                      ELSE "delete_group"]
    /\ UNCHANGED <<clock, heap, engineVars, storeVars, svc_cache, redis,
                   redis_available, conflict_cache, resp>>

\* the key a delete of invalidate removes, and the statement after it
DeleteKey(t) ==
    CASE threads[t].pc = "delete_group" -> "rules:" \o threads[t].group
      [] threads[t].pc = "delete_all"   -> "rules:all"
      [] OTHER                          -> "ruleset_hash"

\* an invalidate that deletes the group's key and not the "all" key
AfterDelete_skips_all(pc) ==
    CASE pc = "delete_group" -> "delete_hash"
      [] pc = "delete_all"   -> "delete_hash"
      [] OTHER               -> "returned"

AfterDelete(pc) ==
    CASE pc = "delete_group" -> "delete_all"
      [] pc = "delete_all"   -> "delete_hash"
      [] OTHER               -> "returned"

\* invalidate: one self.redis.delete(...) of its try block; an exception
\* is logged and ends the call
RedisDelete(t, fails) ==
    /\ threads[t].pc \in {"delete_group", "delete_all", "delete_hash"}
    /\ redis' = IF fails THEN redis ELSE DictDel(redis, {DeleteKey(t)})
    /\ threads' = [threads EXCEPT
                     ![t].pc = IF fails THEN "returned"
                               ELSE AfterDelete(threads[t].pc),
                     ![t].logged = fails]
    /\ UNCHANGED <<clock, heap, engineVars, storeVars, svc_cache, eng_cache,
                   redis_available, conflict_cache, resp>>

CacheGroups == {NoGroup, "fraud"}

GetRulesCreates == {RuleCreate("fraud", 1, TRUE, P)}

NextGetRules ==
    \/ \E rule \in GetRulesCreates : ApiCreateRule(rule, TRUE)
    \/ \E t \in Threads, group \in CacheGroups : CallGetRules(t, group)
    \/ \E t \in Threads : IsLocalCacheValid(t)
    \/ \E t \in Threads : LocalCacheGet(t)
    \/ \E t \in Threads, fails \in BOOLEAN : RedisGet(t, fails)
    \/ \E t \in Threads : LoadRulesFromDb(t)
    \/ \E t \in Threads : UpdateLocalCache(t)
    \/ \E t \in Threads, fails \in BOOLEAN : UpdateRedisCache(t, fails)
    \/ \E t \in Threads, group \in CacheGroups : CallInvalidate(t, group)
    \/ \E t \in Threads : LocalCacheClear(t)
    \/ \E t \in Threads, fails \in BOOLEAN : RedisDelete(t, fails)
    \/ \E t \in Threads : ThreadReturn(t)

SpecGetRules == InitLife /\ [][NextGetRules]_vars

\* the lists a read may deliver at this instant: the list cached under the
\* key, the list the remote tier holds, a list the rule store gives
CachedOrFresh(group) ==
    (IF cache_key(group) \in DOMAIN eng_cache
     THEN {eng_cache[cache_key(group)]} ELSE {})
    \cup (IF redis_available /\ cache_key(group) \in DOMAIN redis
          THEN {json_loads(redis[cache_key(group)])} ELSE {})
    \cup load_rules_from_db(store, group)

\* C13: get_rules that runs concurrently with invalidate and answers from
\* the local tier returns the list cached for the key (or a list the remote
\* tier or the rule store would give), never what a read of the cleared
\* local map gives, such as an empty list while enabled rules exist.
C13_ReturnsCachedOrFresh ==
    [][\A t \in Threads :
          LocalCacheGet(t)
          => threads'[t].result \in CachedOrFresh(threads[t].group)]_vars

\* the same for a read that finds the entry it was told is valid
C13_EntryReadAsCached ==
    [][\A t \in Threads :
          (LocalCacheGet(t)
           /\ cache_key(threads[t].group) \in DOMAIN eng_cache)
          => threads'[t].result = eng_cache[cache_key(threads[t].group)]]_vars

-----------------------------------------------------------------------------
(* OptimizedReteEngine.evaluate with invalidate_cache and reload_rules on   *)
(* one engine.  A Python list is an object: get_rules returns the object   *)
(* the local tier holds, load_rules makes it the engine's _rules_cache,    *)
(* and ReteEngine.invalidate clears the object the engine holds.           *)

MaxLists == 2        \* list objects loaded from the store or the remote tier

\* the contents of the objects the local tier refers to
LocalView(h) == [k \in DOMAIN h.local |-> h.lists[h.local[k]]]

\* evaluate: `rules = self.cache.get_rules(self.db, group)`, no rule_ids
CallEvaluateCached(t, group) ==
    /\ threads[t].pc = "idle"
    /\ \/ cache_key(group) \in DOMAIN eng_cache
       \/ Len(heap.lists) < MaxLists
    /\ \E got \in get_rules(eng_cache, redis, redis_available, store, group) :
          /\ eng_cache' = got.local
          /\ redis' = got.redis
          /\ heap' = IF cache_key(group) \in DOMAIN eng_cache THEN heap
                     ELSE [heap EXCEPT
                             !.lists = Append(@, got.rules),
                             !.loaded = Append(@, got.rules),
                             !.local = DictSet(@, cache_key(group),
                                               Len(heap.lists) + 1)]
          /\ threads' = [threads EXCEPT ![t] =
                            [IdleThread EXCEPT
                               !.op = "evaluate", !.pc = "load_rules",
                               !.group = group, !.rules = got.rules,
                               !.ref = heap'.local[cache_key(group)]]]
    /\ UNCHANGED <<clock, engineVars, storeVars, svc_cache, redis_available,
                   conflict_cache, resp>>

\* invalidate_cache(group); reload_rules() is invalidate_cache(None)
CallInvalidateCache(t, group) ==
    /\ threads[t].pc = "idle"
    /\ threads' = [threads EXCEPT ![t] =
                      [IdleThread EXCEPT !.op = "invalidate_cache",
                                         !.pc = "cache_invalidate",
                                         !.group = group]]
    /\ UNCHANGED <<clock, heap, engineVars, storeVars, cacheVars, resp>>

\* invalidate_cache: self.cache.invalidate(group)
CacheInvalidate(t) ==
    /\ threads[t].pc = "cache_invalidate"
    /\ \E inv \in {RuleCache_invalidate(redis, redis_available,
                                        threads[t].group)} :
          /\ eng_cache' = inv.local
          /\ redis' = inv.redis
    /\ heap' = [heap EXCEPT !.local = <<>>]
    /\ threads' = [threads EXCEPT ![t].pc = "engine_invalidate"]
    /\ UNCHANGED <<clock, engineVars, storeVars, svc_cache, redis_available,
                   conflict_cache, resp>>

\* list.clear() on the object the engine holds
ClearEngineList(h) ==
    IF h.engine = 0 THEN h ELSE [h EXCEPT !.lists[h.engine] = <<>>]

\* invalidate_cache: self.rete_engine.invalidate()
EngineInvalidate(t) ==
    /\ threads[t].pc = "engine_invalidate"
    /\ \E eng \in {ReteEngine_invalidate(Engine)} :
          /\ network' = eng.network
          /\ rules_cache' = eng.rules_cache
    /\ heap' = ClearEngineList(heap)
    /\ eng_cache' = LocalView(heap')
    /\ threads' = [u \in Threads |->
                      IF u = t THEN [threads[u] EXCEPT !.pc = "returned"]
                      ELSE IF heap.engine # 0 /\ threads[u].ref = heap.engine
                      THEN [threads[u] EXCEPT !.rules = <<>>]
                      ELSE threads[u]]
    /\ ret' = Ret("invalidate", TRUE, TRUE, FALSE, NoReport)
    /\ UNCHANGED <<clock, rules_in, event_in, storeVars, svc_cache, redis,
                   redis_available, conflict_cache, resp>>

AliasCreates == {RuleCreate("fraud", 1, TRUE, P)}

NextAlias ==
    \/ \E rule \in AliasCreates : ApiCreateRule(rule, TRUE)
    \/ \E t \in Threads : CallEvaluateCached(t, NoGroup)
    \/ \E t \in Threads : ThreadLoadRules(t)
    \/ \E t \in Threads : ThreadEvaluate(t)
    \/ \E t \in Threads : CallInvalidateCache(t, NoGroup)
    \/ \E t \in Threads : CacheInvalidate(t)
    \/ \E t \in Threads : EngineInvalidate(t)
    \/ \E t \in Threads : ThreadReturn(t)

SpecAlias == InitNoRedis /\ [][NextAlias]_vars

\* C14: in every interleaving of evaluate with invalidate_cache or
\* reload_rules, a list the local tier holds for a key equals the list that
\* was loaded for that key.
C14_CachedListsUnchanged ==
    \A k \in DOMAIN heap.local :
       eng_cache[k] = heap.loaded[heap.local[k]]

\* no step but ReteEngine.invalidate changes a list the local tier holds
C14_OnlyInvalidateChanges ==
    [][(~\E t \in Threads : EngineInvalidate(t))
       => (C14_CachedListsUnchanged => C14_CachedListsUnchanged')]_vars

-----------------------------------------------------------------------------
(* One thread that calls RuleCache.get_rules and RuleCache.invalidate,     *)
(* statement by statement, while rules are created and remote keys expire; *)
(* any Redis command may fail.                                             *)

TierGroups == {NoGroup, "fraud", "ops"}
TierKeys == {cache_key(g) : g \in TierGroups}
TierCreates == {RuleCreate(g, 1, TRUE, P) : g \in {"fraud", "ops"}}

NextTiers ==
    \/ \E rule \in TierCreates : ApiCreateRule(rule, TRUE)
    \/ \E group \in TierGroups : CallGetRules(1, group)
    \/ IsLocalCacheValid(1)
    \/ LocalCacheGet(1)
    \/ \E fails \in BOOLEAN : RedisGet(1, fails)
    \/ LoadRulesFromDb(1)
    \/ UpdateLocalCache(1)
    \/ \E fails \in BOOLEAN : UpdateRedisCache(1, fails)
    \/ \E group \in TierGroups : CallInvalidate(1, group)
    \/ LocalCacheClear(1)
    \/ \E fails \in BOOLEAN : RedisDelete(1, fails)
    \/ ThreadReturn(1)
    \/ \E key \in TierKeys : RedisKeyExpires(key)

SpecTiers == InitLife /\ [][NextTiers]_vars

\* the remote keys invalidate(group) is to delete
DeletedKeys(group) ==
    (IF Falsy(group) THEN {} ELSE {"rules:" \o group})
    \cup {"rules:all", "ruleset_hash"}

\* C15: invalidate(group) leaves the local tier with no entry and the
\* remote tier without the group's key and without the "all" key, and leaves
\* the remote keys of every other group as they were; with no group only
\* the "all" key and the ruleset-hash key are deleted.
C15_InvalidateEffect ==
    [][\A t \in Threads :
          /\ LocalCacheClear(t) => (eng_cache' = <<>> /\ redis' = redis)
          /\ (threads[t].pc = "delete_hash" /\ RedisDelete(t, FALSE))
             => /\ eng_cache' = <<>>
                /\ DOMAIN redis' \cap DeletedKeys(threads[t].group) = {}
          /\ (LocalCacheClear(t) \/ \E fails \in BOOLEAN : RedisDelete(t, fails))
             => \A k \in (DOMAIN redis) \ DeletedKeys(threads[t].group) :
                   k \in DOMAIN redis' /\ redis'[k] = redis[k]]_vars

\* invalidate("fraud") has returned: both its keys are gone, the key of
\* group ops is still there
C15_Witness ==
    /\ threads[1].op = "invalidate" /\ threads[1].pc = "returned"
    /\ threads[1].group = "fraud" /\ ~threads[1].logged
    /\ redis_available
    /\ eng_cache = <<>>
    /\ DOMAIN redis = {"rules:ops"}

\* C16: when a remote-cache operation fails, get_rules still returns the
\* list loaded from the rule store (a failed read is a cache miss),
\* invalidate has cleared the local tier, and neither raises.
C16_RemoteFailureDegrades ==
    [][\A t \in Threads :
          /\ RedisGet(t, TRUE)
             => (threads'[t].pc = "load_rules_from_db" /\ ~threads'[t].raised)
          /\ UpdateRedisCache(t, TRUE)
             => /\ threads'[t].pc = "returned" /\ ~threads'[t].raised
                /\ threads'[t].result = threads[t].rules
                /\ eng_cache'[cache_key(threads[t].group)] = threads[t].rules
          /\ (threads[t].logged /\ LoadRulesFromDb(t))
             => threads'[t].rules
                   \in load_rules_from_db(store, threads[t].group)
          /\ RedisDelete(t, TRUE)
             => /\ threads'[t].pc = "returned" /\ ~threads'[t].raised
                /\ eng_cache' = <<>>]_vars

\* get_rules has returned the store's rule after a Redis command failed
C16_Witness ==
    /\ threads[1].op = "get_rules" /\ threads[1].pc = "returned"
    /\ threads[1].logged /\ ~threads[1].raised
    /\ threads[1].result # <<>>
    /\ threads[1].result \in load_rules_from_db(store, threads[1].group)

-----------------------------------------------------------------------------
(* RuleCache.get_rules with its two TTLs.  Time is in seconds; the clock   *)
(* advances between the calls, a call takes no time.                       *)

CACHE_TTL == 300
local_cache_ttl == 60

Tick == 40
MaxTime == 360

\* RuleCache._is_local_cache_valid
is_local_cache_valid(local, times, time, key) ==
    /\ key \in DOMAIN local
    /\ time - (IF key \in DOMAIN times THEN times[key] ELSE 0)
          < local_cache_ttl

\* RuleCache.get_rules(db, group) at clock.time: the local tier, then
\* Redis (getFails: redis.get raises), then the store and both updates
\* (setFails: redis.setex raises)
GetRulesAt(group, getFails, setFails) ==
    /\ (getFails \/ setFails) => redis_available
    /\ LET key == cache_key(group)
           hit(rules, loaded) ==
               /\ eng_cache' = DictSet(eng_cache, key, rules)
               /\ clock' = [clock EXCEPT
                     !.local_cache_times = DictSet(@, key, clock.time),
                     !.local_loaded = DictSet(@, key, loaded),
                     !.age = clock.time - loaded]
               /\ redis' = redis
           miss(rules) ==
               /\ eng_cache' = DictSet(eng_cache, key, rules)
               /\ IF redis_available /\ ~setFails
                  THEN /\ redis' = DictSet(redis, key, json_dumps(rules))
                       /\ clock' = [clock EXCEPT
                            !.local_cache_times = DictSet(@, key, clock.time),
                            !.local_loaded = DictSet(@, key, clock.time),
                            !.expires = DictSet(@, key,
                                                clock.time + CACHE_TTL),
                            !.redis_loaded = DictSet(@, key, clock.time),
                            !.age = 0]
                  ELSE /\ redis' = redis
                       /\ clock' = [clock EXCEPT
                            !.local_cache_times = DictSet(@, key, clock.time),
                            !.local_loaded = DictSet(@, key, clock.time),
                            !.age = 0]
       IN IF is_local_cache_valid(eng_cache, clock.local_cache_times,
                                  clock.time, key)
          THEN /\ clock' = [clock EXCEPT
                              !.age = clock.time - clock.local_loaded[key]]
               /\ ~getFails /\ ~setFails
               /\ UNCHANGED <<eng_cache, redis>>
          ELSE IF redis_available /\ ~getFails /\ key \in DOMAIN redis
          THEN /\ ~setFails
               /\ hit(json_loads(redis[key]), clock.redis_loaded[key])
          ELSE \E rules \in load_rules_from_db(store, group) : miss(rules)
    /\ resp' = Resp("get_rules", 200, 0, {}, 0)
    /\ UNCHANGED <<threads, heap, engineVars, storeVars, svc_cache,
                   redis_available, conflict_cache>>

\* time passes; a Redis key set with setex is gone once its time is up
Advance ==
    /\ clock.time + Tick <= MaxTime
    /\ clock' = [clock EXCEPT !.time = @ + Tick]
    /\ redis' = DictDel(redis, {key \in DOMAIN redis :
                                   clock.expires[key] <= clock.time + Tick})
    /\ UNCHANGED <<threads, heap, engineVars, storeVars, svc_cache,
                   eng_cache, redis_available, conflict_cache, resp>>

\* the store holds what the creates before left in it; nothing is cached
\* and nothing changes the store, so no invalidation is issued
TtlStores == {<<>>, <<new_rule_row(RuleCreate("fraud", 1, TRUE, P))>>}

InitTtl ==
    /\ rules_in = <<>>
    /\ event_in = LifeEvent
    /\ network = EmptyNetwork
    /\ rules_cache = <<>>
    /\ ret = NoRet
    /\ \E rows \in TtlStores :
          /\ store = rows
          /\ versions = {create_version(id, rows[id]) : id \in DOMAIN rows}
          /\ audit = {[action_type |-> "create", entity_id |-> id, n |-> 1] :
                         id \in DOMAIN rows}
          /\ next_id = Len(rows) + 1
          /\ now = Len(rows)
    /\ upd = Idle
    /\ InitCaches
    /\ redis_available \in BOOLEAN

NextTtl ==
    \/ \E group \in CacheGroups, getFails, setFails \in BOOLEAN :
          GetRulesAt(group, getFails, setFails)
    \/ Advance

SpecTtl == InitTtl /\ [][NextTtl]_vars

\* C17: with no invalidation issued, the data a get_rules call returns was
\* read from the store at most the remote TTL (CACHE_TTL, 300 s) before the
\* call
C17_AgeWithinRemoteTtl ==
    resp.op = "get_rules" => clock.age <= CACHE_TTL

\* the data is younger than the two TTLs together: a local entry written
\* from a Redis hit lives for a local TTL of its own
C17_AgeWithinBothTtls ==
    resp.op = "get_rules" => clock.age < CACHE_TTL + local_cache_ttl

-----------------------------------------------------------------------------
(* compile(R) after compile(R), on the engine of SpecCompile               *)

\* what ReteNetwork.compile builds: the alpha table, the beta list, the
\* terminal table, the field index and the rule-set hash
Tables(net) ==
    [alpha_nodes |-> net.alpha_nodes, beta_nodes |-> net.beta_nodes,
     terminals |-> net.terminals, terminal_nodes |-> net.terminal_nodes,
     field_to_alphas |-> net.field_to_alphas, rules_hash |-> net.rules_hash]

\* the last compile was one of rules_in and no invalidate came after it
CompiledBefore ==
    \/ ret.op = "load_rules"
    \/ network.rules_hash = calculate_hash(rules_in)

\* C18: a compile of the rule list that was compiled before, with no
\* invalidate in between, leaves the hash and the content of the alpha
\* table, the beta list, the terminal table and the field index as they are
C18_SecondCompileNoOp ==
    [][(LoadRules /\ CompiledBefore) => Tables(network') = Tables(network)]_vars

\* a second compile has returned True on a network that an evaluation in
\* between had filled: the memories are still there
C18_Witness ==
    /\ ret.op = "load_rules" /\ ret.ok
    /\ network.rules_hash = calculate_hash(rules_in)
    /\ \E i \in DOMAIN network.alpha_nodes :
          network.alpha_nodes[i].alpha_memory # {}

-----------------------------------------------------------------------------
(* load_rules(R); invalidate(); load_rules(R) by a caller that holds the   *)
(* list object R (thread 1 stands for the caller, its ref is R)            *)

\* the caller builds a rule list
CallerNewList(rules) ==
    /\ Len(heap.lists) < MaxLists
    /\ heap' = [heap EXCEPT !.lists = Append(@, rules),
                            !.loaded = Append(@, rules)]
    /\ threads' = [threads EXCEPT ![1] =
                      [IdleThread EXCEPT !.op = "caller",
                                         !.ref = Len(heap.lists) + 1]]
    /\ UNCHANGED <<clock, engineVars, storeVars, cacheVars, resp>>

\* engine.load_rules(R)
CallerLoadRules ==
    /\ threads[1].ref # 0
    /\ CanCompile
    /\ \E r \in {load_rules(Engine, heap.lists[threads[1].ref])} :
          /\ network' = r.eng.network
          /\ rules_cache' = r.eng.rules_cache
          /\ ret' = Ret("load_rules", TRUE, r.value, r.raised, NoReport)
    /\ heap' = [heap EXCEPT !.engine = threads[1].ref]
    /\ UNCHANGED <<clock, threads, rules_in, event_in, storeVars, cacheVars,
                   resp>>

\* engine.invalidate(): self._rules_cache.clear() empties the list object
\* the engine holds, then the network is cleared
CallerInvalidate ==
    /\ \E eng \in {ReteEngine_invalidate(Engine)} :
          /\ network' = eng.network
          /\ rules_cache' = eng.rules_cache
    /\ heap' = ClearEngineList(heap)
    /\ ret' = Ret("invalidate", TRUE, TRUE, FALSE, NoReport)
    /\ UNCHANGED <<clock, threads, rules_in, event_in, storeVars, cacheVars,
                   resp>>

NextRecompile ==
    \/ \E rules \in ThreadLists : CallerNewList(rules)
    \/ CallerLoadRules
    \/ CallerInvalidate
    \/ EngineEvaluate /\ UNCHANGED <<storeVars, cacheVars, resp>>

SpecRecompile == InitThreads /\ [][NextRecompile]_vars

\* the structure of a network: its nodes without their memories, their
\* links, the field index and the rule-set hash
Structure(net) ==
    [alpha_nodes |-> [i \in DOMAIN net.alpha_nodes |->
                        [condition |-> net.alpha_nodes[i].condition,
                         successors |-> net.alpha_nodes[i].successors]],
     beta_nodes |-> [i \in DOMAIN net.beta_nodes |->
                       [net.beta_nodes[i] EXCEPT !.beta_memory = FALSE]],
     terminals |-> [i \in DOMAIN net.terminals |->
                      [net.terminals[i] EXCEPT !.is_activated = FALSE]],
     terminal_nodes |-> net.terminal_nodes,
     field_to_alphas |-> net.field_to_alphas,
     rules_hash |-> net.rules_hash]

\* the network of the first compile(R): the one of a new ReteNetwork
FirstCompile(rules) == ReteNetwork_compile(EmptyNetwork, rules).net

\* the engine holds the caller's list R and its network was invalidated
InvalidatedFromR ==
    /\ ret.op = "invalidate"
    /\ threads[1].ref # 0
    /\ heap.engine = threads[1].ref

\* C19: compiling R again after an invalidate of the network compiled from
\* R gives the structure of the first compile of R: alpha conditions, beta
\* nodes with join types, negation flags and parent links, terminals and
\* their roots, field index and rule-set hash
C19_RecompileSameStructure ==
    [][(CallerLoadRules /\ InvalidatedFromR)
          => Structure(network')
               = Structure(FirstCompile(heap.loaded[threads[1].ref]))]_vars

\* a compile of a list equal to R that is another object (rules_in of
\* SpecCompile) gives the structure of the first compile, after an
\* invalidate too
C19_RecompileOfEqualList ==
    [][LoadRules
          => Structure(network') = Structure(FirstCompile(rules_in))]_vars

-----------------------------------------------------------------------------
(* OptimizedConflictDetector.detect_all_conflicts on the stores that up to *)
(* MaxDetect creates leave: the rows have the ids of their insertion order *)

MaxDetect == 3

DetectCreates ==
    {RuleCreate(g, p, en, dsl) : g \in {NoGroup, "default"},
                                 p \in 1..MaxPriority, en \in BOOLEAN,
                                 dsl \in {P, DictAB, DictBA}}

\* the stores after the creates of `creates`, one after the other
StoreOf(creates) == [id \in DOMAIN creates |-> new_rule_row(creates[id])]

InitDetect ==
    /\ rules_in = <<>>
    /\ event_in = LifeEvent
    /\ network = EmptyNetwork
    /\ rules_cache = <<>>
    /\ ret = NoRet
    /\ \E n \in 0..MaxDetect : \E creates \in [1..n -> DetectCreates] :
          /\ store = StoreOf(creates)
          /\ versions = {create_version(id, store[id]) : id \in 1..n}
          /\ audit = {[action_type |-> "create", entity_id |-> id, n |-> 1] :
                         id \in 1..n}
          /\ next_id = n + 1
          /\ now = n
    /\ upd = Idle
    /\ InitCaches
    /\ redis_available = FALSE

\* the orders in which the query may return the enabled rows
QueryOrders(st) == Orderings({id \in DOMAIN st : st[id].enabled})

\* OptimizedConflictDetector(db).detect_all_conflicts(): the query, then
\* the scan of its rows
DetectAllConflicts ==
    /\ \E order \in QueryOrders(store) :
          resp' = Resp("detect_all_conflicts", 200, 0,
                       detect_all_conflicts(store, order), 0)
    /\ UNCHANGED <<concVars, engineVars, storeVars, cacheVars>>

NextDetect == DetectAllConflicts

SpecDetect == InitDetect /\ [][NextDetect]_vars

\* how often each element occurs in a sequence
BagOf(seq) ==
    [x \in {seq[i] : i \in DOMAIN seq} |->
        Cardinality({i \in DOMAIN seq : seq[i] = x})]

\* the conflicts of a list by type and unordered pair of rule ids
ByIds(conflicts) ==
    BagOf([i \in DOMAIN conflicts |->
             [type |-> conflicts[i].type,
              rules |-> {conflicts[i].rule1_id, conflicts[i].rule2_id}]])

\* the conflicts of a list by type and unordered pair of rules, a rule
\* being what was inserted
ByRules(st, conflicts) ==
    BagOf([i \in DOMAIN conflicts |->
             [type |-> conflicts[i].type,
              rules |-> {st[conflicts[i].rule1_id],
                         st[conflicts[i].rule2_id]}]])

\* the store had the rules been inserted in the order p
Reinserted(st, p) == [id \in DOMAIN st |-> st[p[id]]]

\* C20: the full scan returns the same conflicts (same type, same unordered
\* pair of rules) whatever the order in which the query returns the rows
\* and whatever the order in which the rules were inserted
C20_SameConflictsInAnyOrder ==
    resp.op = "detect_all_conflicts" =>
       /\ \A order \in QueryOrders(store) :
             ByIds(detect_all_conflicts(store, order)) = ByIds(resp.conflicts)
       /\ \A p \in Orderings(DOMAIN store) :
             \A order \in QueryOrders(Reinserted(store, p)) :
                ByRules(Reinserted(store, p),
                        detect_all_conflicts(Reinserted(store, p), order))
                   = ByRules(store, resp.conflicts)

\* a scan of three enabled rules that collide, returned by the query in
\* another order than that of their ids
C20_Witness ==
    /\ resp.op = "detect_all_conflicts"
    /\ Len(resp.conflicts) > 3
    /\ \E i \in DOMAIN resp.conflicts :
          /\ resp.conflicts[i].type = "priority_collision"
          /\ resp.conflicts[i].rule1_id > resp.conflicts[i].rule2_id
    /\ \E i \in DOMAIN resp.conflicts :
          resp.conflicts[i].type = "duplicate_condition"

-----------------------------------------------------------------------------
(* app.engine.dependency_graph: DependencyGraphBuilder                     *)

\* DependencyGraphBuilder._extract_fields: [raised, fields]; a node that
\* is a JSON string has no .get and raises AttributeError
RECURSIVE extract_fields(_)
extract_fields(condition) ==
    IF IsEmptyDict(condition) THEN [raised |-> FALSE, fields |-> {}]
    ELSE IF ~IsDict(condition) THEN [raised |-> TRUE, fields |-> {}]
    ELSE IF condition.type = "condition"
    THEN [raised |-> FALSE,
          fields |-> IF condition.field # "" THEN {condition.field} ELSE {}]
    ELSE IF condition.type = "group"
    THEN LET update(of) ==
                 [raised |-> \E i \in DOMAIN of : of[i].raised,
                  fields |-> UNION {of[i].fields : i \in DOMAIN of}]
         IN update([i \in DOMAIN condition.children |->
                       extract_fields(condition.children[i])])
    ELSE [raised |-> FALSE, fields |-> {}]

\* _extract_fields(_parse_condition(rule.condition_dsl)) of a row
FieldsOfRow(st, id) == extract_fields(json_loads(st[id].condition_dsl))

\* the inner loop of build_graph: the edges of rule1 with the rules after
\* it in the list
EdgesFrom(st, id1, others) ==
    LET shared(id2) == FieldsOfRow(st, id1).fields
                       \cap FieldsOfRow(st, id2).fields
        linked == SelectSeq(others, LAMBDA id2 : shared(id2) # {})
    IN [k \in DOMAIN linked |->
           [source |-> id1, target |-> linked[k],
            shared_fields |-> shared(linked[k])]]

\* the outer loop of build_graph
RECURSIVE EdgesOf(_, _)
EdgesOf(st, rules) ==
    IF rules = <<>> THEN <<>>
    ELSE EdgesFrom(st, Head(rules), Tail(rules)) \o EdgesOf(st, Tail(rules))

\* DependencyGraphBuilder.build_graph when the query returns the enabled
\* rows in `order`
build_graph(st, order) ==
    IF \E i \in DOMAIN order : FieldsOfRow(st, order[i]).raised
    THEN [raised |-> TRUE, nodes |-> <<>>, edges |-> <<>>]
    ELSE [raised |-> FALSE,
          nodes |-> [i \in DOMAIN order |->
                       [id |-> order[i], group |-> st[order[i]].group,
                        priority |-> st[order[i]].priority]],
          edges |-> EdgesOf(st, order)]

-----------------------------------------------------------------------------
(* build_graph on the stores that up to MaxDetect creates leave            *)

PQ == Group("AND", <<P, Q>>)

GraphTrees ==
    {P, Q, PQ, EmptyDsl, Cond("", ">", JInt(1)),
     Group("OR", <<Q, Group("NOT", <<P>>)>>),
     [EmptyDsl EXCEPT !.type = "rule"],
     Group("AND", <<P, Malformed>>)}

GraphCreates ==
    {RuleCreate(NoGroup, 1, en, dsl) : en \in BOOLEAN, dsl \in GraphTrees}

InitGraph ==
    /\ rules_in = <<>>
    /\ event_in = LifeEvent
    /\ network = EmptyNetwork
    /\ rules_cache = <<>>
    /\ ret = NoRet
    /\ \E n \in 0..MaxDetect : \E creates \in [1..n -> GraphCreates] :
          /\ store = StoreOf(creates)
          /\ versions = {create_version(id, store[id]) : id \in 1..n}
          /\ audit = {[action_type |-> "create", entity_id |-> id, n |-> 1] :
                         id \in 1..n}
          /\ next_id = n + 1
          /\ now = n
    /\ upd = Idle
    /\ InitCaches
    /\ redis_available = FALSE

\* GET /rules/graph/dependencies: builder.build_graph()
BuildGraph ==
    /\ \E order \in QueryOrders(store) :
       \E g \in {build_graph(store, order)} :
          ret' = Ret("build_graph", FALSE, ~g.raised, g.raised,
                     [nodes |-> g.nodes, edges |-> g.edges])
    /\ UNCHANGED <<concVars, rules_in, event_in, network, rules_cache,
                   storeVars, cacheVars, resp>>

NextGraph == BuildGraph

SpecGraph == InitGraph /\ [][NextGraph]_vars

\* the fields a condition tree refers to: those of its atoms
RECURSIVE Referenced(_)
Referenced(c) ==
    IF c.type = "condition" THEN {c.field} \ {""}
    ELSE IF c.type = "group"
    THEN UNION {Referenced(c.children[i]) : i \in DOMAIN c.children}
    ELSE {}

EnabledIds == {id \in DOMAIN store : store[id].enabled}
RefOf(id) == Referenced(json_loads(store[id].condition_dsl))

\* the graph has one node per enabled rule, one edge per unordered pair of
\* distinct rules with a common field, carrying the common fields, and no
\* other edge
GraphOf(g) ==
    /\ Len(g.nodes) = Cardinality(EnabledIds)
    /\ {g.nodes[i].id : i \in DOMAIN g.nodes} = EnabledIds
    /\ \A i, j \in EnabledIds :
          (i < j /\ RefOf(i) \cap RefOf(j) # {}) =>
             Cardinality({k \in DOMAIN g.edges :
                             {g.edges[k].source, g.edges[k].target} = {i, j}})
                = 1
    /\ \A k \in DOMAIN g.edges :
          /\ g.edges[k].source # g.edges[k].target
          /\ {g.edges[k].source, g.edges[k].target} \subseteq EnabledIds
          /\ g.edges[k].shared_fields
                = RefOf(g.edges[k].source) \cap RefOf(g.edges[k].target)
          /\ g.edges[k].shared_fields # {}

\* C21: for every set of enabled rules build_graph returns one node per
\* enabled rule and exactly one edge per unordered pair of distinct rules
\* whose referenced fields intersect, with shared_fields that intersection,
\* and no other edge
C21_GraphOfSharedFields ==
    ret.op = "build_graph" => ~ret.raised /\ GraphOf(ret.report)

\* every node of every enabled rule is a JSON object
RECURSIVE AllObjects(_)
AllObjects(c) ==
    /\ IsDict(c)
    /\ \A i \in DOMAIN c.children : AllObjects(c.children[i])

\* when every node of the enabled rules is an object, the graph is as C21
\* says
C21_GraphOfObjectTrees ==
    (/\ ret.op = "build_graph"
     /\ \A id \in EnabledIds : AllObjects(json_loads(store[id].condition_dsl)))
       => ~ret.raised /\ GraphOf(ret.report)

-----------------------------------------------------------------------------
(* The empty event                                                         *)

EmptyEvent == MkEvent(Absent, Absent)

\* the tree has an atom with the operator not_exists
RECURSIVE HasNotExists(_)
HasNotExists(c) ==
    \/ c.type = "condition" /\ c.op = "not_exists"
    \/ \E i \in DOMAIN c.children : HasNotExists(c.children[i])

\* the tree has a group NOT
RECURSIVE HasNot(_)
HasNot(c) ==
    \/ c.type = "group" /\ Upper(c.op) = "NOT"
    \/ \E i \in DOMAIN c.children : HasNot(c.children[i])

\* the rules of rules_in that the returned report lists
MatchedRules ==
    {i \in DOMAIN rules_in :
        \E k \in DOMAIN ret.report.execution_order :
           ret.report.execution_order[k] = rules_in[i].id}

EmptyEventEvaluated ==
    /\ ret.op = "evaluate" /\ ~ret.raised
    /\ rules_cache = rules_in
    /\ event_in = EmptyEvent

\* C22: the empty event matches no rule whose condition tree has no
\* not_exists atom
C22_EmptyEventNeedsNotExists ==
    EmptyEventEvaluated =>
       \A i \in MatchedRules : HasNotExists(rules_in[i].condition_dsl)

\* the tree has a group without children
RECURSIVE HasEmptyGroup(_)
HasEmptyGroup(c) ==
    \/ c.type = "group" /\ c.children = <<>>
    \/ \E i \in DOMAIN c.children : HasEmptyGroup(c.children[i])

\* a rule the empty event matches has a not_exists atom, a NOT group or a
\* group without children
C22_NotExistsOrNot ==
    EmptyEventEvaluated =>
       \A i \in MatchedRules : \/ HasNotExists(rules_in[i].condition_dsl)
                               \/ HasNot(rules_in[i].condition_dsl)
                               \/ HasEmptyGroup(rules_in[i].condition_dsl)

-----------------------------------------------------------------------------
(* Version rows over create, update and delete                             *)

\* C23: a committed version row stays in the store with unchanged content
\* across every create_rule, update_rule and delete_rule
C23_VersionsAppendOnly == [][versions \subseteq versions']_vars

\* every step other than a delete keeps the version rows
C23_OnlyDeleteRemoves ==
    [][(~ \E id \in RuleIds : ApiDeleteRule(id))
          => versions \subseteq versions']_vars

-----------------------------------------------------------------------------
(* Terminals and their root betas after a compile                          *)

\* the beta nodes whose terminal is the terminal node of the rule id
RootsOf(id) ==
    {b \in DOMAIN network.beta_nodes :
        network.beta_nodes[b].terminal = network.terminal_nodes[id]}

\* C24: after a successful compile every rule has a terminal that exactly
\* one beta node is linked to, and every linked terminal is that of a rule
C24_OneRootPerTerminal ==
    Compiled =>
       /\ \A i \in DOMAIN rules_in :
             /\ rules_in[i].id \in DOMAIN network.terminal_nodes
             /\ Cardinality(RootsOf(rules_in[i].id)) = 1
       /\ \A b \in DOMAIN network.beta_nodes :
             network.beta_nodes[b].terminal \in
                {0} \cup {network.terminal_nodes[rules_in[i].id] :
                             i \in DOMAIN rules_in}

\* every rule has a terminal with at most one root; a rule whose tree is
\* of the DSL grammar has exactly one
C24_AtMostOneRoot ==
    Compiled =>
       \A i \in DOMAIN rules_in :
          /\ rules_in[i].id \in DOMAIN network.terminal_nodes
          /\ Cardinality(RootsOf(rules_in[i].id)) <= 1
          /\ WellFormed(rules_in[i].condition_dsl)
                => Cardinality(RootsOf(rules_in[i].id)) = 1

-----------------------------------------------------------------------------
(* The shared_conditions statistic (specification SpecCompile)             *)

\* the number of atomic-condition occurrences of a tree that get an alpha
\* node
RECURSIVE Occurrences(_)
RECURSIVE OccurrencesIn(_)
Occurrences(c) ==
    IF ~IsDict(c) THEN 0
    ELSE IF c.type = "condition"
    THEN (IF c.field # "" /\ c.op \in Operator THEN 1 ELSE 0)
    ELSE IF c.type = "group" THEN OccurrencesIn(c.children)
    ELSE 0
OccurrencesIn(children) ==
    IF children = <<>> THEN 0
    ELSE Occurrences(Head(children)) + OccurrencesIn(Tail(children))

RECURSIVE OccurrencesOf(_)
OccurrencesOf(rules) ==
    IF rules = <<>> THEN 0
    ELSE Occurrences(Head(rules).condition_dsl) + OccurrencesOf(Tail(rules))

\* the occurrences of R that found their alpha node already there
Reused(rules) == OccurrencesOf(rules) - Cardinality(DistinctTriples(rules))

\* C25: after a successful compile(R), whatever was compiled or invalidated
\* before, shared_conditions is the number of occurrences of R minus the
\* number of distinct triples of R (for lists in which equal values are
\* spelled the same way, so that one alpha node stands for one triple)
C25_SharedCountsThisCompile ==
    (Compiled /\ OneSpelling(rules_in))
       => network.stats.shared_conditions = Reused(rules_in)

\* a compile that builds adds its reused occurrences to the statistic it
\* finds (lists in which equal values are spelled the same way)
C25_SharedAccumulates ==
    [][(/\ LoadRules
        /\ calculate_hash(rules_in) # network.rules_hash
        /\ ret'.ok
        /\ OneSpelling(rules_in))
          => network'.stats.shared_conditions
                = network.stats.shared_conditions + Reused(rules_in)]_vars

-----------------------------------------------------------------------------
(* Specification of evaluation: a caller evaluates one event after another *)
(* on the compiled network and keeps what each call returned               *)

MaxEvals == 3        \* evaluations of one caller

EvalEvents == CompileEvents \cup {EmptyEvent}

\* the matched terminals a call returned
Matched(r) == [i \in 1..Len(r.value) |-> r.net.terminals[r.value[i]]]

\* Phase 1 of ReteNetwork.evaluate, counted: how often each alpha node is
\* activated.  Nothing is activated when the event hash raises; the first
\* loop activates the nodes of the field index once per entry of the lists
\* of the event's fields; the second loop activates the nodes that have no
\* result yet
Activations(net, event) ==
    LET entries == UNION {{<<f, k>> : k \in 1..Len(net.field_to_alphas[f])} :
                            f \in (DOMAIN event) \cap (DOMAIN net.field_to_alphas)}
        indexed(a) == Cardinality({e \in entries :
                                      net.field_to_alphas[e[1]][e[2]] = a})
    IN [a \in 1..Len(net.alpha_nodes) |->
           IF EventHashRaises(event) THEN 0
           ELSE indexed(a) + (IF indexed(a) = 0 THEN 1 ELSE 0)]

\* ReteNetwork.evaluate(event) on the compiled network; the caller appends
\* what came back to its list (with the activations the call made)
NetworkEvaluate(event) ==
    /\ is_compiled(network)
    /\ Len(threads[1].result) < MaxEvals
    /\ \E r \in {ReteNetwork_evaluate(network, event)} :
          /\ network' = r.net
          /\ ret' = Ret("network_evaluate", TRUE, ~r.raised, r.raised,
                        Report(Matched(r), r.value))
          /\ threads' = [threads EXCEPT
                           ![1].op = "evaluate",
                           ![1].result = Append(@, [event |-> event,
                                                    matched |-> Matched(r),
                                                    raised |-> r.raised,
                                                    activations |->
                                                        Activations(network,
                                                                    event)])]
    /\ event_in' = event
    /\ UNCHANGED <<rules_in, rules_cache, heap, clock>>

InitEvaluate ==
    /\ rules_in \in CompileLists
    /\ event_in = EmptyEvent
    /\ network = EmptyNetwork
    /\ rules_cache = <<>>
    /\ ret = NoRet
    /\ InitStore
    /\ InitCaches
    /\ redis_available = FALSE

NextEvaluate ==
    \/ LoadRules /\ UNCHANGED <<storeVars, cacheVars, resp>>
    \/ Invalidate /\ UNCHANGED <<storeVars, cacheVars, resp>>
    \/ \E event \in EvalEvents :
          NetworkEvaluate(event) /\ UNCHANGED <<storeVars, cacheVars, resp>>

SpecEvaluate == InitEvaluate /\ [][NextEvaluate]_vars

\* the network without the statistics of its compiles
Nodes(net) == [net EXCEPT !.stats = NewStats]

\* C26: whatever was evaluated before, evaluate(E) returns what it returns
\* on the network as compile built it, and leaves the network as it leaves
\* that one: the same structure and hash, and the memories of E alone
C26_EvaluateDependsOnEventOnly ==
    LET same(call, r) ==
            /\ call.matched = Matched(r)
            /\ call.raised = r.raised
        alone(event) == ReteNetwork_evaluate(FirstCompile(rules_in), event)
        last(r) ==
            /\ ret.report = Report(Matched(r), r.value)
            /\ ret.raised = r.raised
            /\ Nodes(network) = Nodes(r.net)
            /\ Structure(network) = Structure(FirstCompile(rules_in))
    IN /\ \A i \in DOMAIN threads[1].result :
             same(threads[1].result[i], alone(threads[1].result[i].event))
       /\ ret.op = "network_evaluate" => last(alone(event_in))

\* a third evaluation has returned, of an event that matches other rules
\* than the two events before it, which had matches of their own
C26_Witness ==
    LET calls == threads[1].result
    IN /\ ret.op = "network_evaluate"
       /\ Len(calls) = 3
       /\ calls[1].matched # <<>>
       /\ calls[2].matched # <<>>
       /\ calls[2].matched # calls[1].matched
       /\ calls[3].matched # calls[2].matched
       /\ calls[3].event # calls[1].event

-----------------------------------------------------------------------------
(* The activations of one evaluation (specification SpecEvaluate)          *)

\* C27: in every evaluate call, every alpha node of the network is
\* activated exactly once
C27_EveryAlphaActivatedOnce ==
    \A i \in DOMAIN threads[1].result :
       \A a \in DOMAIN threads[1].result[i].activations :
          threads[1].result[i].activations[a] = 1

\* in every evaluate call that returns, every alpha node is activated
\* exactly once
C27_OnceInCallsThatReturn ==
    \A i \in DOMAIN threads[1].result :
       ~threads[1].result[i].raised =>
          \A a \in DOMAIN threads[1].result[i].activations :
             threads[1].result[i].activations[a] = 1

\* a call has returned on a network in which one alpha node is shared by two
\* betas and another one tests a field the event does not have
C27_SharedAndAbsent ==
    /\ ret.op = "network_evaluate" /\ ~ret.raised
    /\ \E a \in DOMAIN network.alpha_nodes :
          Len(network.alpha_nodes[a].successors) > 1
    /\ \E a \in DOMAIN network.alpha_nodes :
          network.alpha_nodes[a].condition.field \notin DOMAIN event_in

-----------------------------------------------------------------------------
(* get_rules in flight during a lifecycle mutation (specification          *)
(* SpecGetRules: the create commits and deletes the keys of the remote     *)
(* tier in one step, so every commit is followed by its invalidation)      *)

\* C28: once a mutation has committed and its invalidate has returned, a
\* reader that loaded the rule store before the commit does not install
\* its list into the remote tier: what _update_redis_cache sets under the
\* key is a list the rule store gives now
C28_NoStaleInstallAfterInvalidate ==
    [][\A t \in Threads :
          (UpdateRedisCache(t, FALSE) /\ redis_available)
          => threads[t].rules
                \in load_rules_from_db(store, threads[t].group)]_vars

-----------------------------------------------------------------------------
(* Specification of the conflict-checked path: requests one after the      *)
(* other, every create with skip_conflict_check false, and the full scan   *)

CheckedCreates ==
    {RuleCreate(g, p, en, dsl) : g \in {NoGroup, "fraud"},
                                 p \in 1..MaxPriority, en \in BOOLEAN,
                                 dsl \in {P, Q}}

CheckedUpdates ==
    {UpdateEnabled(TRUE), UpdateEnabled(FALSE), UpdateDsl(Q),
     RuleUpdate({"priority"}, NoGroup, MaxPriority, TRUE, P)}

NextChecked ==
    \/ upd = Idle /\ \E rule \in CheckedCreates : ApiCreateRule(rule, FALSE)
    \/ \E id \in RuleIds, u \in CheckedUpdates : ApiUpdateRule(id, u)
    \/ UpdateCreateVersion
    \/ UpdateLogAction
    \/ upd = Idle /\ \E id \in RuleIds : ApiDeleteRule(id)
    \/ ConflictCacheExpires
    \/ upd = Idle /\ DetectAllConflicts

SpecChecked == InitLife /\ [][NextChecked]_vars

\* C29: after requests that all went through the conflict checks, the full
\* scan reports no conflict
C29_CheckedPathLeavesNoConflict ==
    resp.op = "detect_all_conflicts" => resp.conflicts = <<>>

\* the full scan reports no conflict among rules with a group of their own
\* that no update has touched
C29_CreatedInNamedGroups ==
    (/\ resp.op = "detect_all_conflicts"
     /\ \A id \in DOMAIN store :
           store[id].current_version = 1 /\ store[id].group # NoGroup)
       => resp.conflicts = <<>>

-----------------------------------------------------------------------------
(* The event queue: POST /events pushes on the Redis list event_queue, the *)
(* worker process (thread 1) pops from it.  uuid4 gives every event an id  *)
(* no event before it has: the n-th submission gets n, and the response    *)
(* carries it.                                                             *)

MaxEvents == 3       \* events submitted

WorkerEvents == {MkEvent(JInt(2), JInt(2)), MkEvent(JInt(0), Absent),
                 MkEvent(JObj(<<Ch.a, Ch.b>>), Absent)}

\* the Redis list: a key that is absent is the empty list
EventQueue(rds) ==
    IF "event_queue" \in DOMAIN rds THEN rds["event_queue"] ELSE <<>>

\* redis.lpush("event_queue", item)
lpush(rds, item) == DictSet(rds, "event_queue", <<item>> \o EventQueue(rds))

\* what a pop from the right leaves; Redis drops a list that is empty
rpop(rds) ==
    IF Len(EventQueue(rds)) > 1
    THEN DictSet(rds, "event_queue",
                 SubSeq(EventQueue(rds), 1, Len(EventQueue(rds)) - 1))
    ELSE DictDel(rds, {"event_queue"})

\* the worker: process_events at its brpop, nothing evaluated yet
Worker == [IdleThread EXCEPT !.op = "process_events", !.pc = "brpop"]

\* POST /events: submit_event
SubmitEvent(data) ==
    /\ redis_available
    /\ resp.rule_id < MaxEvents
    /\ redis' = lpush(redis, json_dumps([event_id |-> resp.rule_id + 1,
                                         data |-> data]))
    /\ resp' = Resp("submit_event", 200, resp.rule_id + 1, {}, 0)
    /\ UNCHANGED <<concVars, engineVars, storeVars, svc_cache, eng_cache,
                   redis_available, conflict_cache>>

\* the loop `for matched_rule in result["matched_rules"]` of the worker
RECURSIVE LogFired(_, _)
LogFired(logs, matched) ==
    IF matched = <<>> THEN logs
    ELSE LogFired(log_action(logs, "rule_fired", Head(matched).id),
                  Tail(matched))

\* `_, event_data = redis_client.brpop("event_queue", timeout=1)` when the
\* list has an item: the item at the right end, then json.loads
WorkerBrpop ==
    /\ threads[1].op = "process_events" /\ threads[1].pc = "brpop"
    /\ EventQueue(redis) # <<>>
    /\ threads' = [threads EXCEPT
                     ![1].pc = "simulate",
                     ![1].rules =
                         <<json_loads(EventQueue(redis)[Len(EventQueue(redis))])>>]
    /\ redis' = rpop(redis)
    /\ UNCHANGED <<heap, clock, engineVars, storeVars, svc_cache, eng_cache,
                   redis_available, conflict_cache, resp>>

\* brpop when the list stays empty for the timeout: it gives None (or the
\* client's socket timeout raises first), and `_, event_data = None`
\* raises TypeError, which leaves process_events: only KeyboardInterrupt
\* is handled
WorkerTimeout ==
    /\ threads[1].op = "process_events" /\ threads[1].pc = "brpop"
    /\ EventQueue(redis) = <<>>
    /\ threads' = [threads EXCEPT ![1].pc = "stopped", ![1].raised = TRUE]
    /\ UNCHANGED <<heap, clock, engineVars, storeVars, cacheVars, resp>>

\* the rest of the iteration: ReteEngine(db).simulate(event["data"]) on an
\* engine and a RuleCache of its own, then the audit rows and back to
\* brpop.  An exception of the evaluation leaves process_events
WorkerSimulate ==
    /\ threads[1].op = "process_events" /\ threads[1].pc = "simulate"
    /\ \E event \in {threads[1].rules[1]} :
       \E got \in get_rules(<<>>, redis, redis_available, store, NoGroup) :
       \E r \in {evaluate_with_rete([network |-> EmptyNetwork,
                                     rules_cache |-> <<>>],
                                    event.data, got.rules)} :
          /\ redis' = got.redis
          /\ IF r.raised
             THEN /\ threads' = [threads EXCEPT ![1].pc = "stopped",
                                                ![1].rules = <<>>,
                                                ![1].raised = TRUE]
                  /\ UNCHANGED audit
             ELSE /\ threads' = [threads EXCEPT
                                   ![1].pc = "brpop",
                                   ![1].rules = <<>>,
                                   ![1].result =
                                       Append(@, [event_id |-> event.event_id,
                                                  report |-> r.value])]
                  /\ audit' = log_action(LogFired(audit,
                                                  r.value.matched_rules),
                                         "event_processed", 0)
    /\ UNCHANGED <<heap, clock, engineVars, store, versions, next_id, upd,
                   now, svc_cache, eng_cache, redis_available,
                   conflict_cache, resp>>

WorkerStores ==
    {StoreOf(<<RuleCreate(NoGroup, 1, TRUE, P)>>),
     StoreOf(<<RuleCreate(NoGroup, 1, TRUE, P),
               RuleCreate("fraud", 2, TRUE, Q)>>)}

InitWorker ==
    /\ rules_in = <<>>
    /\ event_in = LifeEvent
    /\ network = EmptyNetwork
    /\ rules_cache = <<>>
    /\ ret = NoRet
    /\ store \in WorkerStores
    /\ versions = {create_version(id, store[id]) : id \in DOMAIN store}
    /\ audit = {[action_type |-> "create", entity_id |-> id, n |-> 1] :
                   id \in DOMAIN store}
    /\ next_id = Len(store) + 1
    /\ now = Len(store)
    /\ upd = Idle
    /\ svc_cache = <<>>
    /\ eng_cache = <<>>
    /\ redis = <<>>
    /\ redis_available = TRUE
    /\ conflict_cache = NoMap
    /\ resp = NoResp
    /\ threads = [t \in Threads |-> IF t = 1 THEN Worker ELSE IdleThread]
    /\ heap = NoHeap
    /\ clock = NoClock

NextWorker ==
    \/ \E data \in WorkerEvents : SubmitEvent(data)
    \/ WorkerBrpop
    \/ WorkerTimeout
    \/ WorkerSimulate

SpecWorker == InitWorker /\ [][NextWorker]_vars

\* the worker's loop runs as long as the process does: a brpop that can
\* return does return, and an evaluation (loops over finite lists) ends
SpecWorkerFair ==
    /\ SpecWorker
    /\ WF_vars(WorkerBrpop)
    /\ WF_vars(WorkerTimeout)
    /\ []<>(threads[1].pc # "simulate")

\* the event with this id has been submitted; has been evaluated
Submitted(id) == resp.rule_id >= id
Evaluated(id) ==
    \E i \in DOMAIN threads[1].result : threads[1].result[i].event_id = id

\* C30: every event that submit_event pushed, at any time, is eventually
\* popped and evaluated by the worker
C30_SubmittedEventuallyEvaluated ==
    \A id \in 1..MaxEvents : Submitted(id) ~> Evaluated(id)

\* the worker keeps polling: process_events never ends
C30_WorkerKeepsPolling == threads[1].pc # "stopped"

\* the events are evaluated in the order they were submitted
C30_EvaluatedInOrder ==
    \A i \in DOMAIN threads[1].result : threads[1].result[i].event_id = i

====
